---------------------------- MODULE Spec2Model ----------------------------
(***************************************************************************)
(* State-machine model of the GNK Droid league bot (src/gnk_bot.py): the   *)
(* run lifecycle, the matchmaking queue, the confirm/dispute/timeout       *)
(* protocol of a reported match, the daily run limit and reactivation.     *)
(*                                                                         *)
(* One action models one handler, or one stretch of a handler between two  *)
(* awaits whenever the handler touches shared state again after the await. *)
(* Python dicts are functions whose DOMAIN is the key set; the JSON files  *)
(* current_runs.json, completed_runs.json and user_history.json are the    *)
(* variables runs, completed and history.  Times are seconds.              *)
(***************************************************************************)
EXTENDS Integers, Sequences, FiniteSets, TLC

(***************************************************************************)
(* Bounds of the model.                                                    *)
(***************************************************************************)
NumPlayers == 2
MaxRunIds == 2
MaxViews == 2
LifeTasks == 1
SessionTasks == 2
MaxResults == 4
MaxApprovals == 1
MaxTicks == 1
MaxHistory == 3

Players == 1..NumPlayers

(***************************************************************************)
(* Program constants.                                                      *)
(***************************************************************************)
MAX_RUNS_PER_DAY == 2
MATCH_LIMIT == 3
TROPHY_WINS == 3
ResetHour == 3
SECONDS_PER_HOUR == 3600
SECONDS_PER_DAY == 86400
QUEUE_IDLE_MINUTES == 60
SECONDS_PER_MINUTE == 60
PENDING_EXPIRY == 600
MANUAL_EXPIRY == 300

\* A key that a run record does not (yet) carry: "ended_at" and "user_id"
\* are only added by archive_run.
Absent == -1

(***************************************************************************)
(* Python dict operations.                                                 *)
(***************************************************************************)
EmptyDict == [k \in {} |-> 0]
Put(d, k, v) == [x \in (DOMAIN d) \cup {k} |-> IF x = k THEN v ELSE d[x]]
Del(d, k) == [x \in (DOMAIN d) \ {k} |-> d[x]]
Has(d, k) == k \in DOMAIN d

RECURSIVE CountRes(_, _)
CountRes(results, r) ==
    IF results = << >> THEN 0
    ELSE (IF Head(results).res = r THEN 1 ELSE 0) + CountRes(Tail(results), r)

SeqHas(s, x) == \E i \in 1..Len(s) : s[i] = x

(***************************************************************************)
(* Time zone of the reset anchor.  US/Pacific is UTC-7 (PDT) until the     *)
(* fall-back instant and UTC-8 (PST) from it on.  Instants are seconds     *)
(* since 2026-10-30 00:00:00 UTC; the fall-back is 2026-11-01 09:00 UTC.   *)
(***************************************************************************)
PDT_OFFSET_HOURS == 7
PST_OFFSET_HOURS == 8
FallBackInstant == 2 * SECONDS_PER_DAY + 9 * SECONDS_PER_HOUR

\* pytz: the UTC offset in force at instant t, as seconds west of UTC.
PacificOffsetWest(t) ==
    IF t < FallBackInstant THEN PDT_OFFSET_HOURS * SECONDS_PER_HOUR
    ELSE PST_OFFSET_HOURS * SECONDS_PER_HOUR

\* get_last_3am_pacific, for the clock reading t.  datetime.now(tz) carries
\* the offset in force at t; replace(hour=3, ...) and the subtraction of a
\* day keep that same tzinfo, so both candidate anchors are wall-clock 03:00
\* read with the offset of t.
get_last_3am_pacific(t) ==
    LET west == PacificOffsetWest(t)
        wall == t - west
        today_3am == (wall \div SECONDS_PER_DAY) * SECONDS_PER_DAY
                        + ResetHour * SECONDS_PER_HOUR + west
    IN IF t < today_3am THEN today_3am - SECONDS_PER_DAY ELSE today_3am

RECURSIVE CountAfter(_, _)
CountAfter(user_runs, cutoff) ==
    IF user_runs = << >> THEN 0
    ELSE (IF Head(user_runs) > cutoff THEN 1 ELSE 0)
            + CountAfter(Tail(user_runs), cutoff)

\* can_start_run(user_id) against the history file h at clock reading t.
can_start_run(h, uid, t) ==
    LET user_runs == IF Has(h, uid) THEN h[uid] ELSE << >>
        cutoff == get_last_3am_pacific(t)
    IN CountAfter(user_runs, cutoff) < MAX_RUNS_PER_DAY

\* log_new_run_timestamp(user_id): the new history file.
log_new_run_timestamp(h, uid, t) ==
    LET old == IF Has(h, uid) THEN h[uid] ELSE << >>
    IN Put(h, uid, Append(old, t))

(***************************************************************************)
(* The state.                                                              *)
(***************************************************************************)
VARIABLES
    runs,                   \* current_runs.json: player -> run record
    completed,              \* completed_runs.json: run_id -> run record
    history,                \* user_history.json: player -> run-start instants
    player_queue,           \* insertion-ordered dict: <<[uid, join_time]>>
    pending_deck_links,     \* player -> instant the flow was opened
    pending_reactivations,  \* player -> instant
    pending_manual_reports, \* player -> instant
    match_views,            \* MatchReportView instances: set of <<p1, p2>>
    result_views,           \* ResultView instances, in order of creation
    dispute_views,          \* DisputeResolutionView instances
    approval_views,         \* ReactivationApprovalView instances
    tasks,                  \* handlers suspended at an await, by slot
    next_uuid,              \* the next fresh run_id
    now,                    \* the clock
    out                     \* what the last step sent out (events)

vars == << runs, completed, history, player_queue, pending_deck_links,
           pending_reactivations, pending_manual_reports, match_views,
           result_views, dispute_views, approval_views, tasks, next_uuid,
           now, out >>

Idle == [kind |-> "idle"]
Now0 == SECONDS_PER_DAY + 20 * SECONDS_PER_HOUR

Init ==
    /\ runs = EmptyDict
    /\ completed = EmptyDict
    /\ history = EmptyDict
    /\ player_queue = << >>
    /\ pending_deck_links = EmptyDict
    /\ pending_reactivations = EmptyDict
    /\ pending_manual_reports = EmptyDict
    /\ match_views = {}
    /\ result_views = << >>
    /\ dispute_views = << >>
    /\ approval_views = << >>
    /\ tasks = [s \in 1..LifeTasks |-> Idle]
    /\ next_uuid = 1
    /\ now = Now0
    /\ out = {}


storeVars == << runs, completed, player_queue >>
pendVars == << pending_deck_links, pending_reactivations,
               pending_manual_reports >>
viewVars == << match_views, result_views, dispute_views, approval_views >>

(***************************************************************************)
(* Helpers over the stores.  A store S is the record of the files and the  *)
(* queue a handler works on: [runs, completed, queue, out].                *)
(***************************************************************************)
Store == [runs |-> runs, completed |-> completed, queue |-> player_queue,
          out |-> {}]

InQueue(q, uid) == \E i \in 1..Len(q) : q[i].uid = uid
QueuePop(q, uid) == SelectSeq(q, LAMBDA e : e.uid # uid)

Wins(rd) == CountRes(rd.match_results, "W")
Losses(rd) == CountRes(rd.match_results, "L")

\* A faulty trophy test that forgets the losses; C10 must tell it from
\* IsTrophyRecord.
IsTrophyRecord_wins_only(rd) == Wins(rd) = TROPHY_WINS

\* The trophy test of archive_run (step 3).
IsTrophyRecord(rd) == Wins(rd) = TROPHY_WINS /\ Losses(rd) = 0

\* A faulty archival that stores the run as it was before its last result
\* was saved; C28 must tell it from archive_run.
archive_run_stale(S, uid, t) ==
    IF ~Has(S.runs, uid) THEN S
    ELSE LET n == Len(S.runs[uid].match_results)
             run_data == [S.runs[uid] EXCEPT
                             !.ended_at = t, !.user_id = uid,
                             !.match_results =
                                 IF n = 0 THEN @ ELSE SubSeq(@, 1, n - 1)]
         IN [runs |-> Del(S.runs, uid),
             completed |-> Put(S.completed, run_data.run_id, run_data),
             queue |-> QueuePop(S.queue, uid),
             out |-> S.out]

\* archive_run(user_id) applied to store S at clock reading t.
archive_run(S, uid, t) ==
    IF ~Has(S.runs, uid) THEN S
    ELSE LET run_data == [S.runs[uid] EXCEPT !.ended_at = t, !.user_id = uid]
         IN [runs |-> Del(S.runs, uid),
             completed |-> Put(S.completed, run_data.run_id, run_data),
             queue |-> QueuePop(S.queue, uid),
             out |-> S.out \cup
                     (IF IsTrophyRecord(run_data)
                      THEN {[ev |-> "trophy", user |-> uid,
                             run_id |-> run_data.run_id]}
                      ELSE {})]

\* The two appends a result-recording handler makes to its local copy of
\* current_runs.json, winner first (process_results 281-283, resolve 397-401,
\* force_result 915-920).
AppendResult(rs, uid, opp, res, type) ==
    [rs EXCEPT ![uid].opponents_played = Append(@, opp),
               ![uid].match_results =
                   Append(@, [opp |-> opp, res |-> res, type |-> type])]

\* A faulty recording that stores the winner's side only; C32 must tell it
\* from RecordPair.
RecordPair_half(rs, w, l, type) == AppendResult(rs, w, l, "W", type)

\* 281-286, 396-403, 915-922: both sides are appended to the loaded copy,
\* which is then saved once.
RecordPair(rs, w, l, type) ==
    AppendResult(AppendResult(rs, w, l, "W", type), l, w, "L", type)

\* Bound of the model: no run grows past MaxResults entries.
RoomFor(rs, uid) == Has(rs, uid) => Len(rs[uid].match_results) < MaxResults

(***************************************************************************)
(* Suspended handlers.                                                     *)
(***************************************************************************)
HasFreeSlot == \E s \in DOMAIN tasks : tasks[s].kind = "idle"
FreeSlot == CHOOSE s \in DOMAIN tasks :
                /\ tasks[s].kind = "idle"
                /\ \A r \in 1..(s - 1) : tasks[r].kind # "idle"
Spawn(t) == tasks' = [tasks EXCEPT ![FreeSlot] = t]

\* The task left running after a result was saved: the completion loop
\* "for uid in [winner, loser]: if len(...) >= MATCH_LIMIT: archive_run".
\* wlen, llen, wrun and lrun are the lengths and run ids in the handler's
\* local copy of the file.
TailTask(src, v, w, l, rs) ==
    [kind |-> "tail", pc |-> "archive_w", src |-> src, v |-> v,
     w |-> w, l |-> l,
     wlen |-> Len(rs[w].match_results), llen |-> Len(rs[l].match_results),
     wrun |-> rs[w].run_id, lrun |-> rs[l].run_id]

(***************************************************************************)
(* QueueView.start_run (434-475).  The click loads current_runs.json and   *)
(* awaits interaction.response.defer; the decision is taken afterwards on  *)
(* the copy loaded before the await.                                       *)
(***************************************************************************)
StartRunClick(uid) ==
    /\ HasFreeSlot
    /\ Spawn([kind |-> "start_run", uid |-> uid, had_run |-> Has(runs, uid)])
    /\ out' = {}
    /\ UNCHANGED << storeVars, history, pendVars, viewVars, next_uuid, now >>

StartRunDecide(s) ==
    LET t == tasks[s] IN
    /\ t.kind = "start_run"
    /\ tasks' = [tasks EXCEPT ![s] = Idle]
    /\ IF t.had_run
       THEN /\ out' = {}
            /\ UNCHANGED pending_deck_links
       ELSE IF ~can_start_run(history, t.uid, now)
       THEN /\ out' = {}
            /\ UNCHANGED pending_deck_links
       ELSE /\ pending_deck_links' = Put(pending_deck_links, t.uid, now)
            /\ out' = {}
    /\ UNCHANGED << storeVars, history, pending_reactivations,
                    pending_manual_reports, viewVars, next_uuid, now >>

(***************************************************************************)
(* parse_deck_json (helper.py 230-254): a pasted JSON export yields the    *)
(* leader and base names, anything else the "Private" pair.                *)
(***************************************************************************)
DeckNames ==
    [han |-> [leader |-> "Han", base |-> "Vader's Gambit"],
     luke |-> [leader |-> "Luke", base |-> "Echo Base"]]
PrivateDeck == [leader |-> "Private Leader", base |-> "Private Base"]
parse_deck_json(c) ==
    IF c.kind = "deck" THEN DeckNames[c.val] ELSE PrivateDeck

\* The run record on_message builds at 619-626.
NewRun(uid, run_id, deck) ==
    [name |-> uid, run_id |-> run_id, leader |-> deck.leader,
     base |-> deck.base, opponents_played |-> << >>, match_results |-> << >>,
     ended_at |-> Absent, user_id |-> Absent]

Expired(start, limit) == now - start > limit

(***************************************************************************)
(* on_message (540-869): one direct message with content c from uid.       *)
(* c is [kind, val]: a command word, a pasted deck export, a numeric user  *)
(* id, a run id, or any other text.                                        *)
(***************************************************************************)
\* The replies a handler sends are not part of the state; e names the reply.
Reply(e) == out' = {}

\* 544-562: an expired deck-registration or reactivation flow is dropped
\* and the message is not processed any further.
MsgExpireDeck(uid) ==
    /\ pending_deck_links' = Del(pending_deck_links, uid)
    /\ Reply("session_expired")
    /\ UNCHANGED << storeVars, history, pending_reactivations,
                    pending_manual_reports, viewVars, tasks, next_uuid, now >>

MsgExpireReactivation(uid) ==
    /\ pending_reactivations' = Del(pending_reactivations, uid)
    /\ Reply("session_expired")
    /\ UNCHANGED << storeVars, history, pending_deck_links,
                    pending_manual_reports, viewVars, tasks, next_uuid, now >>

MsgNothing(uid, why) ==
    /\ Reply(why)
    /\ UNCHANGED << storeVars, history, pendVars, viewVars, tasks,
                    next_uuid, now >>

\* The three refusals of a local report: "You cannot play against
\* yourself" (579), "does not have an active run" (586) and "You have
\* already played against" (590).
ReportRejected(uid) == [ev |-> "report_rejected", user |-> uid]

ManualRejected(uid) ==
    /\ out' = {ReportRejected(uid)}
    /\ UNCHANGED << storeVars, history, pendVars, viewVars, tasks,
                    next_uuid, now >>

\* A faulty local report that does not look at opponents_played; C26 must
\* tell it from MsgManualTarget.
MsgManualTarget_replay(uid, c) ==
    IF Expired(pending_manual_reports[uid], MANUAL_EXPIRY)
    THEN /\ pending_manual_reports' = Del(pending_manual_reports, uid)
         /\ out' = {}
         /\ UNCHANGED << storeVars, history, pending_deck_links,
                         pending_reactivations, viewVars, tasks, next_uuid,
                         now >>
    ELSE IF c.kind # "uid" THEN MsgNothing(uid, "not_a_user_id")
    ELSE IF c.val = uid THEN ManualRejected(uid)
    ELSE IF ~Has(runs, c.val) THEN ManualRejected(uid)
    ELSE IF ~Has(runs, uid) THEN MsgNothing(uid, "KeyError")
    ELSE /\ Len(result_views) < MaxViews
         /\ pending_manual_reports' = Del(pending_manual_reports, uid)
         /\ result_views' = Append(result_views,
                [winner_id |-> uid, loser_id |-> c.val,
                 match_type |-> "local", confirmed |-> FALSE,
                 stopped |-> FALSE, recorded |-> 0])
         /\ Reply("report_sent")
         /\ UNCHANGED << storeVars, history, pending_deck_links,
                         pending_reactivations, match_views, dispute_views,
                         approval_views, tasks, next_uuid, now >>

\* 564-602: the answer to "enter the User ID of your opponent".
MsgManualTarget(uid, c) ==
    IF Expired(pending_manual_reports[uid], MANUAL_EXPIRY)
    THEN /\ pending_manual_reports' = Del(pending_manual_reports, uid)
         /\ out' = {}
         /\ UNCHANGED << storeVars, history, pending_deck_links,
                         pending_reactivations, viewVars, tasks, next_uuid,
                         now >>
    ELSE IF c.kind # "uid" THEN MsgNothing(uid, "not_a_user_id")
    ELSE IF c.val = uid THEN ManualRejected(uid)
    ELSE IF ~Has(runs, c.val) THEN ManualRejected(uid)
    ELSE IF ~Has(runs, uid) THEN MsgNothing(uid, "KeyError")
    ELSE IF SeqHas(runs[uid].opponents_played, c.val)
    THEN ManualRejected(uid)
    ELSE /\ Len(result_views) < MaxViews
         /\ pending_manual_reports' = Del(pending_manual_reports, uid)
         /\ result_views' = Append(result_views,
                [winner_id |-> uid, loser_id |-> c.val,
                 match_type |-> "local", confirmed |-> FALSE,
                 stopped |-> FALSE, recorded |-> 0])
         /\ Reply("report_sent")
         /\ UNCHANGED << storeVars, history, pending_deck_links,
                         pending_reactivations, match_views, dispute_views,
                         approval_views, tasks, next_uuid, now >>

\* A faulty registration that does not log the run start; C25 must tell it
\* from MsgDeck.
MsgDeck_unlogged(uid, c) ==
    IF Expired(pending_deck_links[uid], PENDING_EXPIRY)
    THEN /\ pending_deck_links' = Del(pending_deck_links, uid)
         /\ out' = {}
         /\ UNCHANGED << storeVars, history, pending_reactivations,
                         pending_manual_reports, viewVars, tasks, next_uuid,
                         now >>
    ELSE LET deck == parse_deck_json(c) IN
         IF deck.leader # "Private Leader" /\ deck.base # "Private Base"
         THEN /\ next_uuid <= MaxRunIds
              /\ runs' = Put(runs, uid, NewRun(uid, next_uuid, deck))
              /\ pending_deck_links' = Del(pending_deck_links, uid)
              /\ next_uuid' = next_uuid + 1
              /\ Reply("run_registered")
              /\ UNCHANGED << completed, player_queue, history,
                              pending_reactivations,
                              pending_manual_reports, viewVars, tasks, now >>
         ELSE MsgNothing(uid, "invalid_deck")

\* 605-648: the deck export that registers the run.
MsgDeck(uid, c) ==
    IF Expired(pending_deck_links[uid], PENDING_EXPIRY)
    THEN /\ pending_deck_links' = Del(pending_deck_links, uid)
         /\ out' = {}
         /\ UNCHANGED << storeVars, history, pending_reactivations,
                         pending_manual_reports, viewVars, tasks, next_uuid,
                         now >>
    ELSE LET deck == parse_deck_json(c) IN
         IF deck.leader # "Private Leader" /\ deck.base # "Private Base"
         THEN /\ next_uuid <= MaxRunIds
              /\ runs' = Put(runs, uid, NewRun(uid, next_uuid, deck))
              /\ history' = log_new_run_timestamp(history, uid, now)
              /\ pending_deck_links' = Del(pending_deck_links, uid)
              /\ next_uuid' = next_uuid + 1
              /\ Reply("run_registered")
              /\ UNCHANGED << completed, player_queue, pending_reactivations,
                              pending_manual_reports, viewVars, tasks, now >>
         ELSE MsgNothing(uid, "invalid_deck")

\* 651-659
MsgReportMatch(uid) ==
    IF ~Has(runs, uid) THEN MsgNothing(uid, "no_active_run")
    ELSE /\ pending_manual_reports' = Put(pending_manual_reports, uid, now)
         /\ Reply("ask_opponent")
         /\ UNCHANGED << storeVars, history, pending_deck_links,
                         pending_reactivations, viewVars, tasks, next_uuid,
                         now >>

\* The two answers to FINISH: the "Run Archived" embed (668-675) and "You
\* do not have an active run to finish" (677).
RunFinished(uid) == [ev |-> "run_archived", user |-> uid]
FinishRefused(uid) == [ev |-> "no_run_to_finish", user |-> uid]

\* A faulty FINISH that archives the run and leaves the player queued; C24
\* must tell it from MsgFinish.
MsgFinish_keeps_queue(uid) ==
    IF ~Has(runs, uid)
    THEN /\ out' = {FinishRefused(uid)}
         /\ UNCHANGED << storeVars, history, pendVars, viewVars, tasks,
                         next_uuid, now >>
    ELSE LET S == archive_run(Store, uid, now) IN
         /\ runs' = S.runs
         /\ completed' = S.completed
         /\ out' = S.out \cup {RunFinished(uid)}
         /\ UNCHANGED << player_queue, history, pendVars, viewVars, tasks,
                         next_uuid, now >>

\* 662-677
MsgFinish(uid) ==
    IF ~Has(runs, uid)
    THEN /\ out' = {FinishRefused(uid)}
         /\ UNCHANGED << storeVars, history, pendVars, viewVars, tasks,
                         next_uuid, now >>
    ELSE LET S == archive_run(Store, uid, now) IN
         /\ runs' = S.runs
         /\ completed' = S.completed
         /\ player_queue' = S.queue
         /\ out' = S.out \cup {RunFinished(uid)}
         /\ UNCHANGED << history, pendVars, viewVars, tasks, next_uuid, now >>

\* 680-687
MsgStop(uid) ==
    /\ player_queue' = QueuePop(player_queue, uid)
    /\ Reply("left_queue")
    /\ UNCHANGED << runs, completed, history, pendVars, viewVars, tasks,
                    next_uuid, now >>

\* 742-744
MsgRequestReactivation(uid) ==
    /\ pending_reactivations' = Put(pending_reactivations, uid, now)
    /\ Reply("ask_run_id")
    /\ UNCHANGED << storeVars, history, pending_deck_links,
                    pending_manual_reports, viewVars, tasks, next_uuid, now >>

\* 810-837 with join_queue_logic 489-491: the player is put in the queue
\* and the handler awaits the confirmation message before check_for_match.
MsgEnterQueue(uid) ==
    IF ~Has(runs, uid) THEN MsgNothing(uid, "no_active_run")
    ELSE IF InQueue(player_queue, uid) THEN MsgNothing(uid, "already_queued")
    ELSE /\ HasFreeSlot
         /\ player_queue' = Append(player_queue,
                                   [uid |-> uid, join_time |-> now])
         /\ Spawn([kind |-> "join_queue", uid |-> uid])
         /\ out' = {}
         /\ UNCHANGED << runs, completed, history, pendVars, viewVars,
                         next_uuid, now >>

\* 838-868: the run id a player asks to have reactivated.
MsgReactivationId(uid, c) ==
    IF Expired(pending_reactivations[uid], PENDING_EXPIRY)
    THEN /\ pending_reactivations' = Del(pending_reactivations, uid)
         /\ out' = {}
         /\ UNCHANGED << storeVars, history, pending_deck_links,
                         pending_manual_reports, viewVars, tasks, next_uuid,
                         now >>
    ELSE IF ~(c.kind = "rid" /\ Has(completed, c.val))
    THEN MsgNothing(uid, "invalid_run_id")
    ELSE /\ Len(approval_views) < MaxApprovals
         /\ pending_reactivations' = Del(pending_reactivations, uid)
         /\ approval_views' = Append(approval_views,
                [user_id |-> uid, run_id |-> c.val, stopped |-> FALSE])
         /\ Reply("request_sent")
         /\ UNCHANGED << storeVars, history, pending_deck_links,
                         pending_manual_reports, match_views, result_views,
                         dispute_views, tasks, next_uuid, now >>

IsCmd(c, word) == c.kind = "cmd" /\ c.val = word

on_message(uid, c) ==
    IF Has(pending_deck_links, uid)
       /\ Expired(pending_deck_links[uid], PENDING_EXPIRY)
    THEN MsgExpireDeck(uid)
    ELSE IF Has(pending_reactivations, uid)
            /\ Expired(pending_reactivations[uid], PENDING_EXPIRY)
    THEN MsgExpireReactivation(uid)
    ELSE IF Has(pending_manual_reports, uid) THEN MsgManualTarget(uid, c)
    ELSE IF Has(pending_deck_links, uid) THEN MsgDeck(uid, c)
    ELSE IF IsCmd(c, "REPORT_MATCH") THEN MsgReportMatch(uid)
    ELSE IF IsCmd(c, "FINISH") THEN MsgFinish(uid)
    ELSE IF IsCmd(c, "STOP") /\ InQueue(player_queue, uid) THEN MsgStop(uid)
    ELSE IF IsCmd(c, "REQUEST_REACTIVATION") THEN MsgRequestReactivation(uid)
    ELSE IF IsCmd(c, "ENTER_QUEUE") THEN MsgEnterQueue(uid)
    ELSE IF Has(pending_reactivations, uid) THEN MsgReactivationId(uid, c)
    ELSE MsgNothing(uid, "ignored")

(***************************************************************************)
(* check_for_match (516-536), run by join_queue_logic after its await.     *)
(***************************************************************************)
\* sorted(player_queue.items(), key=join time): a stable sort.
InsertByTime(sorted, e) ==
    LET k == Cardinality({i \in 1..Len(sorted) :
                             sorted[i].join_time <= e.join_time})
    IN SubSeq(sorted, 1, k) \o << e >> \o SubSeq(sorted, k + 1, Len(sorted))

RECURSIVE SortQueue(_)
SortQueue(q) ==
    IF Len(q) <= 1 THEN q
    ELSE InsertByTime(SortQueue(SubSeq(q, 1, Len(q) - 1)), q[Len(q)])

\* A faulty filter that never finds a played opponent; C6 must tell it from
\* AlreadyPlayed.
AlreadyPlayed_never(rs, p1_id, p2_id) == FALSE

\* 527: "if p2_id not in runs[str(p1_id)]['opponents_played']", negated.
AlreadyPlayed(rs, p1_id, p2_id) == SeqHas(rs[p1_id].opponents_played, p2_id)

\* The nested loops 522-536 over the sorted uids: the first pair (i, j),
\* i < j, whose later player is not in the earlier player's
\* opponents_played; a KeyError when the earlier player has no active run.
NoPair == [status |-> "none", a |-> 0, b |-> 0]
RECURSIVE FindPair(_, _, _, _)
FindPair(rs, uids, i, j) ==
    IF i > Len(uids) THEN NoPair
    ELSE IF j > Len(uids) THEN FindPair(rs, uids, i + 1, i + 2)
    ELSE IF ~Has(rs, uids[i]) THEN [NoPair EXCEPT !.status = "KeyError"]
    ELSE IF ~AlreadyPlayed(rs, uids[i], uids[j])
    THEN [status |-> "pair", a |-> uids[i], b |-> uids[j]]
    ELSE FindPair(rs, uids, i, j + 1)

\* A faulty pairing that takes only the first player out of the queue before
\* it sends the messages; C29 must tell it from check_for_match.
check_for_match_half(s) ==
    LET sorted_queue == SortQueue(player_queue)
        uids == [i \in 1..Len(sorted_queue) |-> sorted_queue[i].uid]
        m == FindPair(runs, uids, 1, 2)
    IN
    /\ tasks[s].kind = "join_queue"
    /\ tasks' = [tasks EXCEPT ![s] = Idle]
    /\ IF m.status = "pair"
       THEN /\ player_queue' = QueuePop(player_queue, m.a)
            \* 534: the message to p1 reads runs[str(p2_id)]; the views are
            \* only sent when that lookup succeeds.
            /\ match_views' = IF Has(runs, m.b)
                              THEN match_views \cup {<< m.a, m.b >>}
                              ELSE match_views
            /\ out' = {[ev |-> "pair", a |-> m.a, b |-> m.b]}
       ELSE /\ out' = {}
            /\ UNCHANGED << player_queue, match_views >>
    /\ UNCHANGED << runs, completed, history, pendVars, result_views,
                    dispute_views, approval_views, next_uuid, now >>

check_for_match(s) ==
    LET sorted_queue == SortQueue(player_queue)
        uids == [i \in 1..Len(sorted_queue) |-> sorted_queue[i].uid]
        m == FindPair(runs, uids, 1, 2)
    IN
    /\ tasks[s].kind = "join_queue"
    /\ tasks' = [tasks EXCEPT ![s] = Idle]
    /\ IF m.status = "pair"
       THEN /\ player_queue' = QueuePop(QueuePop(player_queue, m.a), m.b)
            \* 534: the message to p1 reads runs[str(p2_id)]; the views are
            \* only sent when that lookup succeeds.
            /\ match_views' = IF Has(runs, m.b)
                              THEN match_views \cup {<< m.a, m.b >>}
                              ELSE match_views
            /\ out' = {[ev |-> "pair", a |-> m.a, b |-> m.b]}
       ELSE /\ out' = {}
            /\ UNCHANGED << player_queue, match_views >>
    /\ UNCHANGED << runs, completed, history, pendVars, result_views,
                    dispute_views, approval_views, next_uuid, now >>

(***************************************************************************)
(* MatchReportView.win_claim (359-364): either player of the pairing       *)
(* claims the win; a ResultView is sent to the other player.               *)
(***************************************************************************)
win_claim(mv, clicker) ==
    /\ mv \in match_views
    /\ clicker \in {mv[1], mv[2]}
    /\ Len(result_views) < MaxViews
    /\ result_views' = Append(result_views,
            [winner_id |-> clicker,
             loser_id |-> IF clicker = mv[1] THEN mv[2] ELSE mv[1],
             match_type |-> "queue", confirmed |-> FALSE,
             stopped |-> FALSE, recorded |-> 0])
    /\ out' = {}
    /\ UNCHANGED << storeVars, history, pendVars, match_views, dispute_views,
                    approval_views, tasks, next_uuid, now >>

(***************************************************************************)
(* ResultView (268-352).  "stopped" is the library's side of the view: a   *)
(* view that was stopped or has timed out dispatches no more clicks and    *)
(* no timeout.  "recorded" counts the times process_results saved this     *)
(* view's result.                                                          *)
(***************************************************************************)
\* process_results 278-286: the marker, the two appends, the save.  The
\* handler then runs on as the task in slot s.  rvs is result_views as the
\* caller leaves it.
process_results(v, s, rvs) ==
    LET rv == rvs[v]
        w == rv.winner_id
        l == rv.loser_id
    IN
    /\ RoomFor(runs, w) /\ RoomFor(runs, l)
    /\ IF Has(runs, w) /\ Has(runs, l)
       THEN LET rs == RecordPair(runs, w, l, rv.match_type) IN
            /\ runs' = rs
            /\ result_views' = [rvs EXCEPT ![v].confirmed = TRUE,
                                           ![v].recorded = @ + 1]
            /\ tasks' = [tasks EXCEPT ![s] = TailTask("result", v, w, l, rs)]
       ELSE \* KeyError at 282: nothing is saved, the handler ends
            /\ result_views' = [rvs EXCEPT ![v].confirmed = TRUE]
            /\ tasks' = [tasks EXCEPT ![s] = Idle]
            /\ UNCHANGED runs
    /\ out' = {}
    /\ UNCHANGED << completed, player_queue, history, pendVars, match_views,
                    dispute_views, approval_views, next_uuid, now >>

\* The ephemeral answer to a click of somebody who is not the reported
\* loser (313, 322).
OnlyLoser(v) == [ev |-> "only_loser", v |-> v]

\* confirm 310-317, up to the await of interaction.response.send_message.
confirm(v, actor) ==
    /\ v \in 1..Len(result_views)
    /\ ~result_views[v].stopped
    /\ IF actor # result_views[v].loser_id
       THEN /\ out' = {OnlyLoser(v)}
            /\ UNCHANGED tasks
       ELSE /\ HasFreeSlot
            /\ Spawn([kind |-> "confirm", v |-> v])
            /\ out' = {}
    /\ UNCHANGED << storeVars, history, pendVars, viewVars, next_uuid, now >>

\* confirm 317: process_results, after the await.
confirm_resume(s) ==
    /\ tasks[s].kind = "confirm"
    /\ process_results(tasks[s].v, s, result_views)

\* A timeout that only ends the view.
on_timeout_silent(v) ==
    /\ v \in 1..Len(result_views)
    /\ ~result_views[v].stopped
    /\ result_views' = [result_views EXCEPT ![v].stopped = TRUE]
    /\ out' = {}
    /\ UNCHANGED << storeVars, history, pendVars, match_views, dispute_views,
                    approval_views, tasks, next_uuid, now >>

\* on_timeout 348-352.  The library marks the view finished.
on_timeout(v) ==
    /\ v \in 1..Len(result_views)
    /\ ~result_views[v].stopped
    /\ IF ~result_views[v].confirmed
       THEN /\ HasFreeSlot
            /\ process_results(v, FreeSlot,
                               [result_views EXCEPT ![v].stopped = TRUE])
       ELSE /\ result_views' = [result_views EXCEPT ![v].stopped = TRUE]
            /\ out' = {}
            /\ UNCHANGED << storeVars, history, pendVars, match_views,
                            dispute_views, approval_views, tasks, next_uuid,
                            now >>

\* A dispute that sets the marker and stops the view before it looks at
\* who clicked.
dispute_marks_first(v, actor, delivered) ==
    /\ v \in 1..Len(result_views)
    /\ ~result_views[v].stopped
    /\ IF actor # result_views[v].loser_id
       THEN /\ out' = {OnlyLoser(v)}
            /\ result_views' = [result_views EXCEPT ![v].confirmed = TRUE,
                                                    ![v].stopped = TRUE]
            /\ UNCHANGED dispute_views
       ELSE /\ result_views' = [result_views EXCEPT ![v].confirmed = TRUE,
                                                    ![v].stopped = TRUE]
            /\ dispute_views' =
                 IF delivered
                 THEN Append(dispute_views,
                             [p1 |-> result_views[v].winner_id,
                              p2 |-> result_views[v].loser_id,
                              stopped |-> FALSE, recorded |-> 0])
                 ELSE dispute_views
            /\ out' = {}
    /\ UNCHANGED << storeVars, history, pendVars, match_views,
                    approval_views, tasks, next_uuid, now >>

\* dispute 319-346.  The marker and stop() come before the first await; the
\* DisputeResolutionView reaches the admin channel only if the message to
\* the claimed winner (334, not guarded) was delivered.
dispute(v, actor, delivered) ==
    /\ v \in 1..Len(result_views)
    /\ ~result_views[v].stopped
    /\ IF actor # result_views[v].loser_id
       THEN /\ out' = {OnlyLoser(v)}
            /\ UNCHANGED << result_views, dispute_views >>
       ELSE /\ result_views' = [result_views EXCEPT ![v].confirmed = TRUE,
                                                    ![v].stopped = TRUE]
            /\ dispute_views' =
                 IF delivered
                 THEN Append(dispute_views,
                             [p1 |-> result_views[v].winner_id,
                              p2 |-> result_views[v].loser_id,
                              stopped |-> FALSE, recorded |-> 0])
                 ELSE dispute_views
            /\ out' = {}
    /\ UNCHANGED << storeVars, history, pendVars, match_views,
                    approval_views, tasks, next_uuid, now >>

(***************************************************************************)
(* DisputeResolutionView.resolve (388-420), up to the save; p1_wins and    *)
(* p2_wins (422-428) choose the winner.                                    *)
(***************************************************************************)
resolve(d, p1_won) ==
    /\ d \in 1..Len(dispute_views)
    /\ ~dispute_views[d].stopped
    /\ LET w == IF p1_won THEN dispute_views[d].p1 ELSE dispute_views[d].p2
           l == IF p1_won THEN dispute_views[d].p2 ELSE dispute_views[d].p1
       IN
       IF ~Has(runs, w) \/ ~Has(runs, l)
       THEN /\ out' = {}
            /\ UNCHANGED << runs, dispute_views, tasks >>
       ELSE /\ RoomFor(runs, w) /\ RoomFor(runs, l)
            /\ HasFreeSlot
            /\ LET rs == RecordPair(runs, w, l, "admin_dispute") IN
               /\ runs' = rs
               /\ Spawn(TailTask("dispute", d, w, l, rs))
            /\ dispute_views' = [dispute_views EXCEPT ![d].recorded = @ + 1]
            /\ out' = {}
    /\ UNCHANGED << completed, player_queue, history, pendVars, match_views,
                    result_views, approval_views, next_uuid, now >>

\* The "Force Logged" message to the admin (924).
ForceLogged(winner_id, loser_id) ==
    [ev |-> "force_logged", w |-> winner_id, l |-> loser_id]

\* A faulty force_result that credits the win to the loser; C23 must tell it
\* from force_result.
force_result_swapped(winner_id, loser_id, delivered) ==
    IF ~Has(runs, winner_id) \/ ~Has(runs, loser_id)
    THEN MsgNothing(winner_id, "no_active_run")
    ELSE IF winner_id = loser_id THEN MsgNothing(winner_id, "self_match")
    ELSE /\ RoomFor(runs, winner_id) /\ RoomFor(runs, loser_id)
         /\ LET rs == RecordPair(runs, loser_id, winner_id, "admin_forced")
                t == TailTask("force", 0, winner_id, loser_id, rs)
            IN
            /\ runs' = rs
            /\ IF delivered /\ (t.wlen >= MATCH_LIMIT \/ t.llen >= MATCH_LIMIT)
               THEN HasFreeSlot /\ Spawn(t)
               ELSE UNCHANGED tasks
         /\ out' = IF delivered THEN {ForceLogged(winner_id, loser_id)}
                            ELSE {}
         /\ UNCHANGED << completed, player_queue, history, pendVars,
                         viewVars, next_uuid, now >>

(***************************************************************************)
(* force_result (898-937), up to the await of ctx.send at 924.  When that  *)
(* send fails the exception handler at 935 ends the command.               *)
(***************************************************************************)
force_result(winner_id, loser_id, delivered) ==
    IF ~Has(runs, winner_id) \/ ~Has(runs, loser_id)
    THEN MsgNothing(winner_id, "no_active_run")
    ELSE IF winner_id = loser_id THEN MsgNothing(winner_id, "self_match")
    ELSE /\ RoomFor(runs, winner_id) /\ RoomFor(runs, loser_id)
         /\ LET rs == RecordPair(runs, winner_id, loser_id, "admin_forced")
                t == TailTask("force", 0, winner_id, loser_id, rs)
            IN
            /\ runs' = rs
            /\ IF delivered /\ (t.wlen >= MATCH_LIMIT \/ t.llen >= MATCH_LIMIT)
               THEN HasFreeSlot /\ Spawn(t)
               ELSE UNCHANGED tasks
         /\ out' = IF delivered THEN {ForceLogged(winner_id, loser_id)}
                            ELSE {}
         /\ UNCHANGED << completed, player_queue, history, pendVars,
                         viewVars, next_uuid, now >>

(***************************************************************************)
(* The completion loop shared by process_results (302-308), resolve        *)
(* (413-420) and force_result (926-933):                                   *)
(*     for uid in [winner, loser]:                                         *)
(*         if len(runs[str(uid)]["match_results"]) >= MATCH_LIMIT:         *)
(*             await archive_run(uid); await u.send(...)                   *)
(*     self.stop()                                                         *)
(* runs is the handler's local copy; the send is not guarded, so a failed  *)
(* delivery ends the handler there.                                        *)
(***************************************************************************)
StopView(t) ==
    /\ result_views' = IF t.src = "result"
                       THEN [result_views EXCEPT ![t.v].stopped = TRUE]
                       ELSE result_views
    /\ dispute_views' = IF t.src = "dispute"
                        THEN [dispute_views EXCEPT ![t.v].stopped = TRUE]
                        ELSE dispute_views

completion_loop(s, delivered) ==
    LET t == tasks[s]
        at_winner == t.pc = "archive_w" /\ t.wlen >= MATCH_LIMIT
        at_loser == /\ t.pc \in {"archive_w", "archive_l"}
                    /\ ~at_winner
                    /\ t.llen >= MATCH_LIMIT
        S == IF at_winner THEN archive_run(Store, t.w, now)
             ELSE IF at_loser THEN archive_run(Store, t.l, now)
             ELSE Store
    IN
    /\ t.kind = "tail"
    /\ runs' = S.runs
    /\ completed' = S.completed
    /\ player_queue' = S.queue
    /\ out' = S.out
    /\ IF at_winner
       THEN /\ tasks' = [tasks EXCEPT ![s] =
                            IF delivered THEN [t EXCEPT !.pc = "archive_l"]
                            ELSE Idle]
            /\ UNCHANGED << result_views, dispute_views >>
       ELSE IF at_loser
       THEN /\ tasks' = [tasks EXCEPT ![s] =
                            IF delivered /\ t.src # "force"
                            THEN [t EXCEPT !.pc = "stop"]
                            ELSE Idle]
            /\ UNCHANGED << result_views, dispute_views >>
       ELSE /\ tasks' = [tasks EXCEPT ![s] = Idle]
            /\ StopView(t)
    /\ UNCHANGED << history, pendVars, match_views, approval_views,
                    next_uuid, now >>

(***************************************************************************)
(* Admin commands and the reactivation approval.                           *)
(***************************************************************************)
\* The "Run Cancelled" message to the admin (967).
RunCancelled(user_id) == [ev |-> "run_cancelled", user |-> user_id]

\* A faulty cancel that leaves the player in the queue; C21 must tell it
\* from cancel_run.
cancel_run_keeps_queue(user_id) ==
    IF ~Has(runs, user_id) THEN MsgNothing(user_id, "no_active_run")
    ELSE /\ runs' = Del(runs, user_id)
         /\ history' = Del(history, user_id)
         /\ out' = {RunCancelled(user_id)}
         /\ UNCHANGED << completed, player_queue, pendVars, viewVars, tasks,
                         next_uuid, now >>

\* cancel_run 941-967
cancel_run(user_id) ==
    IF ~Has(runs, user_id) THEN MsgNothing(user_id, "no_active_run")
    ELSE /\ runs' = Del(runs, user_id)
         /\ player_queue' = QueuePop(player_queue, user_id)
         /\ history' = Del(history, user_id)
         /\ out' = {RunCancelled(user_id)}
         /\ UNCHANGED << completed, pendVars, viewVars, tasks, next_uuid,
                         now >>

\* A faulty reactivation that leaves the run in the archive as well; C17
\* must tell it from reactivate_run.
reactivate_run_copy(run_id) ==
    IF ~Has(completed, run_id) THEN MsgNothing(0, "no_such_run")
    ELSE LET run_data == completed[run_id]
             user_id == run_data.user_id
         IN
         IF user_id = Absent THEN MsgNothing(0, "no_user_id")
         ELSE IF Has(runs, user_id) THEN MsgNothing(user_id, "already_active")
         ELSE /\ runs' = Put(runs, user_id, run_data)
              /\ out' = {}
              /\ UNCHANGED << completed, player_queue, history, pendVars,
                              viewVars, tasks, next_uuid, now >>

\* A faulty reactivation that restores the run without its results; C9 must
\* tell it from reactivate_run.
reactivate_run_fresh(run_id) ==
    IF ~Has(completed, run_id) THEN MsgNothing(0, "no_such_run")
    ELSE LET run_data == completed[run_id]
             user_id == run_data.user_id
         IN
         IF user_id = Absent THEN MsgNothing(0, "no_user_id")
         ELSE IF Has(runs, user_id) THEN MsgNothing(user_id, "already_active")
         ELSE /\ runs' = Put(runs, user_id,
                             [run_data EXCEPT !.match_results = << >>])
              /\ completed' = Del(completed, run_id)
              /\ out' = {}
              /\ UNCHANGED << player_queue, history, pendVars, viewVars,
                              tasks, next_uuid, now >>

\* reactivate_run 1005-1052
reactivate_run(run_id) ==
    IF ~Has(completed, run_id) THEN MsgNothing(0, "no_such_run")
    ELSE LET run_data == completed[run_id]
             user_id == run_data.user_id
         IN
         IF user_id = Absent THEN MsgNothing(0, "no_user_id")
         ELSE IF Has(runs, user_id) THEN MsgNothing(user_id, "already_active")
         ELSE /\ runs' = Put(runs, user_id, run_data)
              /\ completed' = Del(completed, run_id)
              /\ out' = {}
              /\ UNCHANGED << player_queue, history, pendVars, viewVars,
                              tasks, next_uuid, now >>

\* delete_run 1112-1136
delete_run(run_id) ==
    IF Has(completed, run_id)
    THEN /\ completed' = Del(completed, run_id)
         /\ out' = {}
         /\ UNCHANGED << runs, player_queue, history, pendVars, viewVars,
                         tasks, next_uuid, now >>
    ELSE IF \E uid \in DOMAIN runs : runs[uid].run_id = run_id
    THEN /\ runs' = Del(runs, CHOOSE uid \in DOMAIN runs :
                                /\ runs[uid].run_id = run_id
                                /\ \A o \in DOMAIN runs :
                                      runs[o].run_id = run_id => uid <= o)
         /\ out' = {}
         /\ UNCHANGED << completed, player_queue, history, pendVars,
                         viewVars, tasks, next_uuid, now >>
    ELSE MsgNothing(0, "no_such_run")

\* ReactivationApprovalView.approve 232-255
approve(i) ==
    /\ i \in 1..Len(approval_views)
    /\ ~approval_views[i].stopped
    /\ LET av == approval_views[i] IN
       IF ~Has(completed, av.run_id)
       THEN /\ out' = {}
            /\ UNCHANGED << runs, completed, approval_views >>
       ELSE /\ runs' = Put(runs, av.user_id, completed[av.run_id])
            /\ completed' = Del(completed, av.run_id)
            /\ approval_views' = [approval_views EXCEPT ![i].stopped = TRUE]
            /\ out' = {}
    /\ UNCHANGED << player_queue, history, pendVars, match_views,
                    result_views, dispute_views, tasks, next_uuid, now >>

\* ReactivationApprovalView.deny 257-266
deny(i) ==
    /\ i \in 1..Len(approval_views)
    /\ ~approval_views[i].stopped
    /\ approval_views' = [approval_views EXCEPT ![i].stopped = TRUE]
    /\ out' = {}
    /\ UNCHANGED << storeVars, history, pendVars, match_views, result_views,
                    dispute_views, tasks, next_uuid, now >>

(***************************************************************************)
(* The clock.  Every handler reads datetime.now(); between two handlers    *)
(* the clock may have moved on by more than the life of a pending flow.    *)
(***************************************************************************)
TickStep == PENDING_EXPIRY + 1

Tick ==
    /\ now < Now0 + MaxTicks * TickStep
    /\ now' = now + TickStep
    /\ out' = {}
    /\ UNCHANGED << storeVars, history, pendVars, viewVars, tasks, next_uuid >>

(***************************************************************************)
(* queue_cleanup (76-91), the loop that runs every 25 minutes: the entries *)
(* that waited more than 60 minutes are listed first; then each listed     *)
(* player is deleted from player_queue and told so, with an await after    *)
(* every deletion.  A listed player who is no longer queued makes the      *)
(* deletion raise KeyError, which ends the loop for good.                  *)
(***************************************************************************)
IdleLimit == QUEUE_IDLE_MINUTES * SECONDS_PER_MINUTE

\* 80-84 on queue q at clock reading t: the uids to remove, in queue order.
ToRemove(q, t) ==
    LET old == SelectSeq(q, LAMBDA e : t - e.join_time > IdleLimit)
    IN [i \in 1..Len(old) |-> old[i].uid]

CleanupRuns ==
    \E s \in DOMAIN tasks : tasks[s].kind \in {"cleanup", "cleanup_failed"}

\* 78-87: the tick, up to the first await.
queue_cleanup ==
    LET to_remove == ToRemove(player_queue, now) IN
    /\ ~CleanupRuns
    /\ IF to_remove = << >>
       THEN UNCHANGED << player_queue, tasks >>
       ELSE /\ HasFreeSlot
            /\ player_queue' = QueuePop(player_queue, Head(to_remove))
            /\ Spawn([kind |-> "cleanup", rest |-> Tail(to_remove)])
    /\ out' = {}
    /\ UNCHANGED << runs, completed, history, pendVars, viewVars, next_uuid,
                    now >>

\* 86-91: the loop resumed after user.send.
queue_cleanup_resume(s) ==
    LET t == tasks[s] IN
    /\ t.kind = "cleanup"
    /\ IF t.rest = << >>
       THEN /\ tasks' = [tasks EXCEPT ![s] = Idle]
            /\ UNCHANGED player_queue
       ELSE IF ~InQueue(player_queue, Head(t.rest))
       THEN /\ tasks' = [tasks EXCEPT ![s] = [kind |-> "cleanup_failed"]]
            /\ UNCHANGED player_queue
       ELSE /\ player_queue' = QueuePop(player_queue, Head(t.rest))
            /\ tasks' = [tasks EXCEPT ![s].rest = Tail(t.rest)]
    /\ out' = {}
    /\ UNCHANGED << runs, completed, history, pendVars, viewVars, next_uuid,
                    now >>

\* The clock moving on by the idle ceiling.
IdleTick ==
    /\ now < Now0 + MaxTicks * IdleLimit
    /\ now' = now + IdleLimit
    /\ out' = {}
    /\ UNCHANGED << storeVars, history, pendVars, viewVars, tasks, next_uuid >>

(***************************************************************************)
(* passive_timeout_cleanup (1274-1299), the loop that runs every 2         *)
(* minutes.  It reads the clock once, then walks pending_deck_links and    *)
(* pending_reactivations in turn: the players whose flow is older than 600 *)
(* seconds are listed, and each listed player is deleted and told so, with *)
(* an await after every deletion.  pending_manual_reports is not walked.   *)
(* The loop owns one task, SweepTask, which sleeps between two runs.       *)
(***************************************************************************)
SweepTask == 0
SweepSleeping == [kind |-> "sweep_sleeping"]

\* 1283-1286 on dict d with the clock reading t taken at 1277.
StaleFlows(d, t) == {uid \in DOMAIN d : t - d[uid] > PENDING_EXPIRY}

\* 1288-1299: one deletion, up to the await of user.send.  The listed
\* players are taken in the dict's insertion order, which is any order.
SweepDelete(dict, uid, rest, at) ==
    /\ IF dict = "deck"
       THEN /\ pending_deck_links' = Del(pending_deck_links, uid)
            /\ UNCHANGED pending_reactivations
       ELSE /\ pending_reactivations' = Del(pending_reactivations, uid)
            /\ UNCHANGED pending_deck_links
    /\ tasks' = [tasks EXCEPT ![SweepTask] =
                    [kind |-> "sweep", dict |-> dict, rest |-> rest \ {uid},
                     at |-> at]]

\* 1280-1281: the walk moves on to pending_reactivations.
SweepReactivations(at) ==
    LET to_remove == StaleFlows(pending_reactivations, at) IN
    IF to_remove = {}
    THEN /\ tasks' = [tasks EXCEPT ![SweepTask] = SweepSleeping]
         /\ UNCHANGED << pending_deck_links, pending_reactivations >>
    ELSE \E uid \in to_remove : SweepDelete("react", uid, to_remove, at)

\* 1276-1299: the tick, up to the first await.
passive_timeout_cleanup ==
    LET to_remove == StaleFlows(pending_deck_links, now) IN
    /\ SweepTask \in DOMAIN tasks
    /\ tasks[SweepTask] = SweepSleeping
    /\ IF to_remove = {}
       THEN SweepReactivations(now)
       ELSE \E uid \in to_remove : SweepDelete("deck", uid, to_remove, now)
    /\ out' = {}
    /\ UNCHANGED << storeVars, history, pending_manual_reports, viewVars,
                    next_uuid, now >>

\* 1288-1299: the loop resumed after user.send.  A listed player whose flow
\* was removed meanwhile makes "del state_dict[uid]" raise KeyError, which
\* ends the loop for good.
passive_timeout_resume ==
    LET t == tasks[SweepTask]
        d == IF t.dict = "deck" THEN pending_deck_links
             ELSE pending_reactivations
    IN
    /\ SweepTask \in DOMAIN tasks
    /\ t.kind = "sweep"
    /\ IF t.rest # {}
       THEN \E uid \in t.rest :
               IF Has(d, uid)
               THEN SweepDelete(t.dict, uid, t.rest, t.at)
               ELSE /\ tasks' = [tasks EXCEPT ![SweepTask] =
                                    [kind |-> "sweep_failed"]]
                    /\ UNCHANGED << pending_deck_links,
                                    pending_reactivations >>
       ELSE IF t.dict = "deck" THEN SweepReactivations(t.at)
       ELSE /\ tasks' = [tasks EXCEPT ![SweepTask] = SweepSleeping]
            /\ UNCHANGED << pending_deck_links, pending_reactivations >>
    /\ out' = {}
    /\ UNCHANGED << storeVars, history, pending_manual_reports, viewVars,
                    next_uuid, now >>

(***************************************************************************)
(* The events, and the specifications.                                     *)
(***************************************************************************)
DeckContents == {[kind |-> "deck", val |-> "han"]}
RidContents == {[kind |-> "rid", val |-> r] : r \in 1..MaxRunIds}
UidContents == {[kind |-> "uid", val |-> u] : u \in Players}
Cmd(word) == [kind |-> "cmd", val |-> word]

Slots == DOMAIN tasks
Views == 1..MaxViews

\* The run lifecycle: registration, finish, admin cancel and delete,
\* reactivation by command and by approved request.
LifeContents == DeckContents \cup RidContents
                   \cup {Cmd("FINISH"), Cmd("REQUEST_REACTIVATION")}

Next ==
    \/ \E uid \in Players : StartRunClick(uid)
    \/ \E s \in Slots : StartRunDecide(s)
    \/ \E uid \in Players, c \in LifeContents : on_message(uid, c)
    \/ \E uid \in Players : cancel_run(uid)
    \/ \E r \in 1..MaxRunIds : reactivate_run(r)
    \/ \E r \in 1..MaxRunIds : delete_run(r)
    \/ \E i \in 1..MaxApprovals : approve(i)
    \/ \E i \in 1..MaxApprovals : deny(i)
    \/ Tick

Spec == Init /\ [][Next]_vars

\* Results forced by the admin, the completion loop, finish, reactivation
\* and cancel.
ResultContents == DeckContents \cup {Cmd("FINISH")}

NextResult ==
    \/ \E uid \in Players : StartRunClick(uid)
    \/ \E s \in Slots : StartRunDecide(s)
    \/ \E uid \in Players, c \in ResultContents : on_message(uid, c)
    \/ \E w \in Players, l \in Players, ok \in BOOLEAN : force_result(w, l, ok)
    \/ \E s \in Slots, ok \in BOOLEAN : completion_loop(s, ok)
    \/ \E r \in 1..MaxRunIds : reactivate_run(r)
    \/ \E uid \in Players : cancel_run(uid)

SpecResult == Init /\ [][NextResult]_vars

\* The same handlers where a handler that was resumed after its await runs
\* on (the event loop schedules every ready coroutine): weak fairness of
\* the resumed start_run and of the completion loop.  Nothing obliges a
\* player or the admin to act.
SpecTrophy ==
    /\ Init
    /\ [][NextResult]_vars
    /\ \A s \in 1..LifeTasks :
          /\ WF_vars(StartRunDecide(s))
          /\ WF_vars(\E ok \in BOOLEAN : completion_loop(s, ok))

\* The queue and the sessions of reported matches, with SessionTasks
\* handlers in flight.  The specification starts where every player has
\* registered a run (StartRunClick, StartRunDecide and the deck message, in
\* turn for each player) and nothing else has happened yet.
InitSession ==
    /\ runs = [p \in Players |-> NewRun(p, p, DeckNames.han)]
    /\ completed = EmptyDict
    /\ history = [p \in Players |-> << Now0 >>]
    /\ player_queue = << >>
    /\ pending_deck_links = EmptyDict
    /\ pending_reactivations = EmptyDict
    /\ pending_manual_reports = EmptyDict
    /\ match_views = {}
    /\ result_views = << >>
    /\ dispute_views = << >>
    /\ approval_views = << >>
    /\ tasks = [s \in 1..SessionTasks |-> Idle]
    /\ next_uuid = NumPlayers + 1
    /\ now = Now0
    /\ out = {}

SessionContents == {Cmd("ENTER_QUEUE")}

NextSession ==
    \/ \E uid \in Players, c \in SessionContents : on_message(uid, c)
    \/ \E s \in Slots : check_for_match(s)
    \/ \E mv \in match_views, p \in Players : win_claim(mv, p)
    \/ \E v \in Views, p \in Players : confirm(v, p)
    \/ \E s \in Slots : confirm_resume(s)
    \/ \E v \in Views : on_timeout(v)
    \/ \E v \in Views, p \in Players, ok \in BOOLEAN : dispute(v, p, ok)
    \/ \E s \in Slots, ok \in BOOLEAN : completion_loop(s, ok)

SpecSession == InitSession /\ [][NextSession]_vars

\* Disputes and their arbitration.  The specification starts where the
\* queue has just paired players 1 and 2 (the state SpecSession reaches with
\* the two ENTER_QUEUE messages and check_for_match), with SessionTasks
\* handlers in flight.
InitDispute ==
    /\ runs = [p \in Players |-> NewRun(p, p, DeckNames.han)]
    /\ completed = EmptyDict
    /\ history = [p \in Players |-> << Now0 >>]
    /\ player_queue = << >>
    /\ pending_deck_links = EmptyDict
    /\ pending_reactivations = EmptyDict
    /\ pending_manual_reports = EmptyDict
    /\ match_views = {<< 1, 2 >>}
    /\ result_views = << >>
    /\ dispute_views = << >>
    /\ approval_views = << >>
    /\ tasks = [s \in 1..SessionTasks |-> Idle]
    /\ next_uuid = NumPlayers + 1
    /\ now = Now0
    /\ out = {[ev |-> "pair", a |-> 1, b |-> 2]}

NextDispute ==
    \/ \E mv \in match_views, p \in Players : win_claim(mv, p)
    \/ \E v \in Views, p \in Players : confirm(v, p)
    \/ \E s \in Slots : confirm_resume(s)
    \/ \E v \in Views, p \in Players, ok \in BOOLEAN : dispute(v, p, ok)
    \/ \E d \in Views, p1_won \in BOOLEAN : resolve(d, p1_won)
    \/ \E s \in Slots, ok \in BOOLEAN : completion_loop(s, ok)

SpecDispute == InitDispute /\ [][NextDispute]_vars

\* The confirmation window running out.  After the pairing of InitDispute
\* the players report wins, the reported loser never answers and time
\* passes.  The timer
\* of a view that is still listening fires (discord.ui.View, timeout=60) and
\* a handler that was resumed runs on: weak fairness of both.
NextTimeout ==
    \/ \E mv \in match_views, p \in Players : win_claim(mv, p)
    \/ \E v \in Views : on_timeout(v)
    \/ \E s \in Slots, ok \in BOOLEAN : completion_loop(s, ok)
    \/ Tick

SpecTimeout ==
    /\ InitDispute
    /\ [][NextTimeout]_vars
    /\ \A v \in Views : WF_vars(on_timeout(v))
    /\ \A s \in 1..SessionTasks :
          WF_vars(\E ok \in BOOLEAN : completion_loop(s, ok))

\* The queue next to everything that takes an Active Run away: finish,
\* the archival after a forced result, admin cancel and admin delete-run.
\* The specification starts where SpecSession starts.
QueueContents == {Cmd("ENTER_QUEUE"), Cmd("FINISH"), Cmd("STOP")}

NextQueue ==
    \/ \E uid \in Players, c \in QueueContents : on_message(uid, c)
    \/ \E s \in Slots : check_for_match(s)
    \/ \E w \in Players, l \in Players, ok \in BOOLEAN : force_result(w, l, ok)
    \/ \E s \in Slots, ok \in BOOLEAN : completion_loop(s, ok)
    \/ \E uid \in Players : cancel_run(uid)
    \/ \E r \in 1..MaxRunIds : delete_run(r)

SpecQueue == InitSession /\ [][NextQueue]_vars

\* Local match reports: REPORT_MATCH and the opponent's id, next to the
\* timeout that records a reported result and to FINISH, which takes an
\* opponent's run away.  The specification starts where SpecSession starts.
ReportContents == {Cmd("REPORT_MATCH"), Cmd("FINISH")} \cup UidContents

NextReport ==
    \/ \E uid \in Players, c \in ReportContents : on_message(uid, c)
    \/ \E v \in Views : on_timeout(v)
    \/ \E s \in Slots, ok \in BOOLEAN : completion_loop(s, ok)
    \/ Tick

SpecReport == InitSession /\ [][NextReport]_vars

\* The idle sweep of the queue.  The specification starts where both
\* players have an Active Run and the result of their match against each
\* other is recorded (the state SpecSession reaches with a pairing, a win
\* claim and its confirmation), so that both can wait in the queue without
\* being paired.
InitCleanup ==
    /\ runs = RecordPair([p \in Players |-> NewRun(p, p, DeckNames.han)],
                         1, 2, "queue")
    /\ completed = EmptyDict
    /\ history = [p \in Players |-> << Now0 >>]
    /\ player_queue = << >>
    /\ pending_deck_links = EmptyDict
    /\ pending_reactivations = EmptyDict
    /\ pending_manual_reports = EmptyDict
    /\ match_views = {}
    /\ result_views = << >>
    /\ dispute_views = << >>
    /\ approval_views = << >>
    /\ tasks = [s \in 1..SessionTasks |-> Idle]
    /\ next_uuid = NumPlayers + 1
    /\ now = Now0
    /\ out = {}

CleanupContents == {Cmd("ENTER_QUEUE"), Cmd("STOP")}

NextCleanup ==
    \/ \E uid \in Players, c \in CleanupContents : on_message(uid, c)
    \/ \E s \in Slots : check_for_match(s)
    \/ queue_cleanup
    \/ \E s \in Slots : queue_cleanup_resume(s)
    \/ Tick
    \/ IdleTick

SpecCleanup == InitCleanup /\ [][NextCleanup]_vars

(***************************************************************************)
(* The daily limit around the reset and around the end of daylight saving  *)
(* time.  The specification starts with a clock reading and a history file *)
(* as registrations before that reading leave it (instants in the order    *)
(* they were appended, none later than the clock), and the "Start New      *)
(* League Run" button applies can_start_run to them.                       *)
(***************************************************************************)
\* 03:00 Pacific of 2026-10-30 and 2026-10-31 (PDT) and of 2026-11-01 (PST).
Oct30Reset == (ResetHour + PDT_OFFSET_HOURS) * SECONDS_PER_HOUR
Oct31Reset == SECONDS_PER_DAY + (ResetHour + PDT_OFFSET_HOURS) * SECONDS_PER_HOUR
Nov1Reset == 2 * SECONDS_PER_DAY
                + (ResetHour + PST_OFFSET_HOURS) * SECONDS_PER_HOUR

NowSamples ==
    {Oct31Reset - 1, Oct31Reset, Oct31Reset + 1, Now0,
     FallBackInstant - 1, FallBackInstant + SECONDS_PER_HOUR \div 2,
     Nov1Reset - 1, Nov1Reset, Nov1Reset + 1}

TsSamples ==
    {Oct30Reset + 1, Oct31Reset - 1, Oct31Reset, Oct31Reset + 1,
     Oct31Reset + SECONDS_PER_HOUR, Oct31Reset + SECONDS_PER_HOUR + 1,
     Nov1Reset - 1, Nov1Reset, Nov1Reset + 1}

HistorySamples(t) ==
    {h \in UNION {[1..n -> TsSamples] : n \in 0..MaxHistory} :
        /\ \A i \in 1..Len(h) : h[i] <= t
        /\ \A i \in 1..(Len(h) - 1) : h[i] <= h[i + 1]}

InitLimit ==
    /\ now \in NowSamples
    /\ \E h \in HistorySamples(now) :
          history = IF h = << >> THEN EmptyDict ELSE [p \in {1} |-> h]
    /\ runs = EmptyDict
    /\ completed = EmptyDict
    /\ player_queue = << >>
    /\ pending_deck_links = EmptyDict
    /\ pending_reactivations = EmptyDict
    /\ pending_manual_reports = EmptyDict
    /\ match_views = {}
    /\ result_views = << >>
    /\ dispute_views = << >>
    /\ approval_views = << >>
    /\ tasks = [s \in 1..LifeTasks |-> Idle]
    /\ next_uuid = 1
    /\ out = {}

NextLimit ==
    \/ \E uid \in Players : StartRunClick(uid)
    \/ \E s \in Slots : StartRunDecide(s)

SpecLimit == InitLimit /\ [][NextLimit]_vars

\* Every operation that records a result, side by side: the confirmation
\* of a reported result, the arbitration of a dispute and the admin's
\* forced result, with the completion loop that archives a run at the match
\* limit.  The specification starts with the pairing SpecDispute starts
\* with, and with LifeTasks handlers in flight.
NextRecord ==
    \/ \E mv \in match_views, p \in Players : win_claim(mv, p)
    \/ \E v \in Views, p \in Players : confirm(v, p)
    \/ \E s \in Slots : confirm_resume(s)
    \/ \E v \in Views, p \in Players, ok \in BOOLEAN : dispute(v, p, ok)
    \/ \E d \in Views, p1_won \in BOOLEAN : resolve(d, p1_won)
    \/ \E w \in Players, l \in Players, ok \in BOOLEAN : force_result(w, l, ok)
    \/ \E s \in Slots, ok \in BOOLEAN : completion_loop(s, ok)

InitRecord ==
    /\ runs = [p \in Players |-> NewRun(p, p, DeckNames.han)]
    /\ completed = EmptyDict
    /\ history = [p \in Players |-> << Now0 >>]
    /\ player_queue = << >>
    /\ pending_deck_links = EmptyDict
    /\ pending_reactivations = EmptyDict
    /\ pending_manual_reports = EmptyDict
    /\ match_views = {<< 1, 2 >>}
    /\ result_views = << >>
    /\ dispute_views = << >>
    /\ approval_views = << >>
    /\ tasks = [s \in 1..LifeTasks |-> Idle]
    /\ next_uuid = NumPlayers + 1
    /\ now = Now0
    /\ out = {[ev |-> "pair", a |-> 1, b |-> 2]}

SpecRecord == InitRecord /\ [][NextRecord]_vars

\* A new run after a played match.  The specification starts where players
\* 1 and 2 have played each other and the admin has cancelled player 1's
\* run (cancel_run removes the run and the player's last history entry):
\* player 2's run holds the loss against player 1, player 1 has no run.
\* Run ids are uuid4 values; the only one in the stores is numbered 1.
InitRematch ==
    /\ runs = Put(EmptyDict, 2,
                  [NewRun(2, 1, DeckNames.han) EXCEPT
                      !.opponents_played = << 1 >>,
                      !.match_results =
                          << [opp |-> 1, res |-> "L", type |-> "queue"] >>])
    /\ completed = EmptyDict
    /\ history = Put(Put(EmptyDict, 1, << >>), 2, << Now0 >>)
    /\ player_queue = << >>
    /\ pending_deck_links = EmptyDict
    /\ pending_reactivations = EmptyDict
    /\ pending_manual_reports = EmptyDict
    /\ match_views = {<< 1, 2 >>}
    /\ result_views = << >>
    /\ dispute_views = << >>
    /\ approval_views = << >>
    /\ tasks = [s \in 1..SessionTasks |-> Idle]
    /\ next_uuid = MaxRunIds
    /\ now = Now0
    /\ out = {}

RematchContents == DeckContents \cup {Cmd("ENTER_QUEUE"), Cmd("STOP")}

NextRematch ==
    \/ \E uid \in Players : StartRunClick(uid)
    \/ \E s \in Slots : StartRunDecide(s)
    \/ \E uid \in Players, c \in RematchContents : on_message(uid, c)
    \/ \E s \in Slots : check_for_match(s)

SpecRematch == InitRematch /\ [][NextRematch]_vars

\* The daily limit over whole runs: start clicks, deck exports, FINISH and
\* admin reactivation, on the evening of 2026-10-31 and in the night of the
\* fall-back.  The specification starts where player 1 has started up to
\* MAX_RUNS_PER_DAY runs one second after the reset of 31 October, has
\* finished them, and the admin has deleted them from the archive
\* (delete_run), so that no run is in the stores.
DayNowSamples == {Now0, FallBackInstant + SECONDS_PER_HOUR \div 2}

DayHistories ==
    {[i \in 1..n |-> Oct31Reset + 1] : n \in 0..MAX_RUNS_PER_DAY}

InitDay ==
    /\ now \in DayNowSamples
    /\ \E h \in DayHistories :
          history = IF h = << >> THEN EmptyDict ELSE [p \in {1} |-> h]
    /\ runs = EmptyDict
    /\ completed = EmptyDict
    /\ player_queue = << >>
    /\ pending_deck_links = EmptyDict
    /\ pending_reactivations = EmptyDict
    /\ pending_manual_reports = EmptyDict
    /\ match_views = {}
    /\ result_views = << >>
    /\ dispute_views = << >>
    /\ approval_views = << >>
    /\ tasks = [s \in 1..LifeTasks |-> Idle]
    /\ next_uuid = 1
    /\ out = {}

DayContents == DeckContents \cup {Cmd("FINISH")}

NextDay ==
    \/ \E uid \in Players : StartRunClick(uid)
    \/ \E s \in Slots : StartRunDecide(s)
    \/ \E uid \in Players, c \in DayContents : on_message(uid, c)
    \/ \E r \in 1..MaxRunIds : reactivate_run(r)

SpecDay == InitDay /\ [][NextDay]_vars

\* Played runs and the reactivation request.  The specification starts
\* where SpecCleanup starts (players 1 and 2 have played each other); the
\* players finish, ask for the reactivation of an archived run and the
\* admin approves or denies, next to forced results and the completion
\* loop.
HolderContents == RidContents
                     \cup {Cmd("FINISH"), Cmd("REQUEST_REACTIVATION")}

NextHolder ==
    \/ \E uid \in Players, c \in HolderContents : on_message(uid, c)
    \/ \E i \in 1..MaxApprovals : approve(i)
    \/ \E i \in 1..MaxApprovals : deny(i)
    \/ \E w \in Players, l \in Players, ok \in BOOLEAN : force_result(w, l, ok)
    \/ \E s \in Slots, ok \in BOOLEAN : completion_loop(s, ok)

SpecHolder == InitCleanup /\ [][NextHolder]_vars

\* The interactive flows and the sweep of the flows nobody finished: start
\* clicks, deck exports, REPORT_MATCH with the opponent's id, and
\* REQUEST_REACTIVATION, next to passive_timeout_cleanup and the clock.
\* The loop started in on_ready (1165) runs every 2 minutes for as long as
\* it is alive, and a resumed loop body runs on: weak fairness of both.
\* Nothing obliges a player to write again.
InitPending ==
    /\ runs = EmptyDict
    /\ completed = EmptyDict
    /\ history = EmptyDict
    /\ player_queue = << >>
    /\ pending_deck_links = EmptyDict
    /\ pending_reactivations = EmptyDict
    /\ pending_manual_reports = EmptyDict
    /\ match_views = {}
    /\ result_views = << >>
    /\ dispute_views = << >>
    /\ approval_views = << >>
    /\ tasks = [s \in SweepTask..LifeTasks |->
                   IF s = SweepTask THEN SweepSleeping ELSE Idle]
    /\ next_uuid = 1
    /\ now = Now0
    /\ out = {}

PendingContents == DeckContents \cup UidContents
                      \cup {Cmd("REPORT_MATCH"), Cmd("REQUEST_REACTIVATION")}

NextPending ==
    \/ \E uid \in Players : StartRunClick(uid)
    \/ \E s \in Slots : StartRunDecide(s)
    \/ \E uid \in Players, c \in PendingContents : on_message(uid, c)
    \/ passive_timeout_cleanup
    \/ passive_timeout_resume
    \/ Tick

SpecPending ==
    /\ InitPending
    /\ [][NextPending]_vars
    /\ WF_vars(passive_timeout_cleanup)
    /\ WF_vars(passive_timeout_resume)

(***************************************************************************)
(* The claims.                                                             *)
(***************************************************************************)
\* The player a run was created for: the author of the deck message that
\* registered it (NewRun).
Owner(rd) == rd.name

\* C1: in every reachable state no two Active Runs belong to the same owner
\* (the player the run was created for), under start-registration, deck
\* submission, finish, admin cancel, admin reactivate and approved
\* reactivation requests.
C1_OneActiveRunPerOwner ==
    \A k1 \in DOMAIN runs : \A k2 \in DOMAIN runs :
        k1 # k2 => Owner(runs[k1]) # Owner(runs[k2])

\* C2: in every reachable state every run, Active or Archived, has at most
\* MATCH_LIMIT entries in match_results.
C2_MatchLimit ==
    /\ \A uid \in DOMAIN runs : Len(runs[uid].match_results) <= MATCH_LIMIT
    /\ \A rid \in DOMAIN completed :
          Len(completed[rid].match_results) <= MATCH_LIMIT

\* C3: when a result-recording operation brings a player's match_results to
\* MATCH_LIMIT, that player's run is Archived by the time the operation
\* completes, for the winner and for the loser.  The operation completes
\* when its handler ends: the step that appended the result and left no
\* completion loop to run, or the step that ends the completion loop.
C3_ArchivedWithinOperation ==
    [][/\ \A s \in DOMAIN tasks :
             (tasks[s].kind = "tail" /\ tasks'[s].kind = "idle") =>
                /\ tasks[s].wlen = MATCH_LIMIT =>
                      Has(completed', tasks[s].wrun)
                /\ tasks[s].llen = MATCH_LIMIT =>
                      Has(completed', tasks[s].lrun)
       /\ \A uid \in DOMAIN runs :
             (/\ Has(runs', uid)
              /\ runs'[uid].run_id = runs[uid].run_id
              /\ Len(runs[uid].match_results) < MATCH_LIMIT
              /\ Len(runs'[uid].match_results) = MATCH_LIMIT) =>
                \E s \in DOMAIN tasks :
                   /\ tasks'[s].kind = "tail"
                   /\ tasks[s].kind # "tail"
                   /\ uid \in {tasks'[s].w, tasks'[s].l}]_vars

\* C4: for each reported match session, across every interleaving of the
\* loser's confirm click, the loser's dispute click and the timeout, the
\* reported result is recorded into the two runs at most once.
C4_RecordedAtMostOnce ==
    \A v \in 1..Len(result_views) : result_views[v].recorded <= 1

\* C5: once a session has been resolved (by confirm, dispute or timeout) a
\* further confirm or dispute on it appends no MatchResult: from the moment
\* the resolved marker is set, the session records nothing more.
C5_ResolvedSessionRecordsNothing ==
    [][\A v \in 1..Len(result_views) :
          result_views[v].confirmed =>
             result_views'[v].recorded = result_views[v].recorded]_vars

\* C6: matchmaking never returns a pair (a, b), a the longer-waiting player,
\* with b in opponents_played of a's Active Run at the time of pairing.
C6_NoRematch ==
    [][\A e \in out' :
          e.ev = "pair" =>
             /\ Has(runs, e.a)
             /\ ~SeqHas(runs[e.a].opponents_played, e.b)
             /\ \E i \in 1..Len(player_queue) : \E j \in 1..Len(player_queue) :
                   /\ player_queue[i].uid = e.a
                   /\ player_queue[j].uid = e.b
                   /\ player_queue[i].join_time <= player_queue[j].join_time
                   /\ i # j]_vars

\* C6 witness: matchmaking has returned a pair and sent both players the
\* report view.
C6_Paired ==
    \E e \in out :
        /\ e.ev = "pair"
        /\ << e.a, e.b >> \in match_views
        /\ ~InQueue(player_queue, e.a)
        /\ ~InQueue(player_queue, e.b)

\* The reset anchor of the specification: the most recent instant, not later
\* than t, at which the Pacific wall clock reads 03:00, with the offset in
\* force at that instant.
ResetOfDay(d) ==
    LET pdt == d * SECONDS_PER_DAY
                 + (ResetHour + PDT_OFFSET_HOURS) * SECONDS_PER_HOUR
        pst == d * SECONDS_PER_DAY
                 + (ResetHour + PST_OFFSET_HOURS) * SECONDS_PER_HOUR
    IN IF pdt < FallBackInstant THEN pdt ELSE pst

TrueAnchor(t) ==
    LET days == {d \in -1..3 : ResetOfDay(d) <= t}
        last == CHOOSE d \in days : \A e \in days : e <= d
    IN ResetOfDay(last)

StartsAfter(h, uid, anchor) ==
    IF Has(h, uid)
    THEN Cardinality({i \in 1..Len(h[uid]) : h[uid][i] > anchor})
    ELSE 0

\* C7: can_start_run is true if and only if the number of the player's
\* history timestamps strictly after the reset anchor of now is less than
\* MAX_RUNS_PER_DAY, the anchor being the most recent daily reset that is
\* not later than now.  Stated on the step of start_run that consults it for
\* a player with no Active Run: the registration flow is opened exactly then.
C7_LimitAgainstTrueAnchor ==
    [][\A s \in DOMAIN tasks :
          (/\ tasks[s].kind = "start_run"
           /\ tasks'[s].kind = "idle"
           /\ ~tasks[s].had_run
           /\ ~Has(pending_deck_links, tasks[s].uid)) =>
             (Has(pending_deck_links', tasks[s].uid)
                <=> StartsAfter(history, tasks[s].uid, TrueAnchor(now))
                       < MAX_RUNS_PER_DAY)]_vars

\* C8: the step of start_run that decides opens the deck-registration flow
\* of the player if and only if, at that moment, the player has no Active
\* Run and can_start_run is true; otherwise no flow is opened; runs, history
\* and queue are unchanged either way.
C8_StartRegistrationGuard ==
    [][\A s \in DOMAIN tasks :
          (tasks[s].kind = "start_run" /\ tasks'[s].kind = "idle") =>
             LET uid == tasks[s].uid
                 allowed == /\ ~Has(runs, uid)
                            /\ can_start_run(history, uid, now)
             IN /\ allowed => /\ Has(pending_deck_links', uid)
                              /\ pending_deck_links'[uid] = now
                /\ ~allowed => pending_deck_links' = pending_deck_links
                /\ runs' = runs
                /\ history' = history
                /\ player_queue' = player_queue]_vars

\* The fields the round trip of a run is about.
SameRun(a, b) ==
    /\ a.match_results = b.match_results
    /\ a.opponents_played = b.opponents_played
    /\ a.leader = b.leader
    /\ a.base = b.base
    /\ a.run_id = b.run_id

PerfectRecord(rd) ==
    /\ CountRes(rd.match_results, "W") = 3
    /\ CountRes(rd.match_results, "L") = 0

\* C10: a trophy event is emitted at archival if and only if the archived
\* run's record is exactly 3 wins and 0 losses, and a trophy event is only
\* emitted for the run being archived.
C10_TrophyIffPerfect ==
    [][/\ \A rid \in (DOMAIN completed') \ (DOMAIN completed) :
             (\E e \in out' : e.ev = "trophy" /\ e.run_id = rid)
                <=> PerfectRecord(completed'[rid])
       /\ \A e \in out' :
             e.ev = "trophy" =>
                /\ e.run_id \in (DOMAIN completed') \ (DOMAIN completed)
                /\ completed'[e.run_id].user_id = e.user]_vars

\* C10 witness: the completion loop has archived a run of three wins and the
\* trophy event is out.
C10_TrophyOut ==
    \E e \in out :
        /\ e.ev = "trophy"
        /\ Has(completed, e.run_id)
        /\ Len(completed[e.run_id].match_results) = MATCH_LIMIT
        /\ \A i \in 1..MATCH_LIMIT :
              completed[e.run_id].match_results[i].res = "W"
        /\ \E s \in DOMAIN tasks : tasks[s].kind = "tail"

\* C11: when the reported loser disputes, the session records nothing and a
\* dispute goes to the admins; the admin's selection then records exactly
\* one result for that dispute: a Win for the selected player and a Loss for
\* the other, both of type admin_dispute.
C11_DisputeArbitratedOnce ==
    [][/\ Len(dispute_views') > Len(dispute_views) => runs' = runs
       /\ \A d \in 1..Len(dispute_views) :
             dispute_views'[d].recorded # dispute_views[d].recorded =>
                /\ dispute_views[d].recorded = 0
                /\ dispute_views'[d].recorded = 1
                /\ \E w \in {dispute_views[d].p1, dispute_views[d].p2} :
                   \E l \in {dispute_views[d].p1, dispute_views[d].p2} :
                      /\ w # l
                      /\ runs'[w].match_results =
                            Append(runs[w].match_results,
                                   [opp |-> l, res |-> "W",
                                    type |-> "admin_dispute"])
                      /\ runs'[l].match_results =
                            Append(runs[l].match_results,
                                   [opp |-> w, res |-> "L",
                                    type |-> "admin_dispute"])]_vars

C13_TimeoutSourceMarked ==
    [][\A v \in 1..Len(result_views) :
          /\ ~result_views[v].stopped
          /\ result_views'[v].stopped
          /\ result_views'[v].recorded = result_views[v].recorded + 1
          => LET w == result_views[v].winner_id
                 l == result_views[v].loser_id
                 rw == runs'[w].match_results[Len(runs'[w].match_results)]
                 rl == runs'[l].match_results[Len(runs'[l].match_results)]
             IN
             /\ rw.type # result_views[v].match_type
             /\ rl.type # result_views[v].match_type]_vars

\* C14: a confirm or dispute click on a session by anybody but the reported
\* loser is answered and changes neither the session (its marker, its
\* listening, its recorded results, a suspended handler of it, a dispute
\* raised from it) nor any run.
C14_OnlyLoserActs ==
    [][\A v \in 1..Len(result_views) :
          OnlyLoser(v) \in out' =>
             /\ result_views' = result_views
             /\ dispute_views' = dispute_views
             /\ tasks' = tasks
             /\ runs' = runs
             /\ completed' = completed]_vars

\* Somebody else clicked on a session that is still awaiting the loser.
C14_Refused ==
    \E v \in 1..Len(result_views) :
        /\ OnlyLoser(v) \in out
        /\ ~result_views[v].stopped
        /\ ~result_views[v].confirmed
        /\ result_views[v].recorded = 0

\* C15: every queued player has an Active Run.
C15_QueuedHasActiveRun ==
    \A i \in 1..Len(player_queue) : Has(runs, player_queue[i].uid)

Distinct(seq) ==
    \A i \in 1..Len(seq) : \A j \in 1..Len(seq) : i # j => seq[i] # seq[j]

\* C16: no player appears twice in opponents_played of the same run, Active
\* or Archived.
C16_OpponentsDistinct ==
    /\ \A uid \in DOMAIN runs : Distinct(runs[uid].opponents_played)
    /\ \A r \in DOMAIN completed : Distinct(completed[r].opponents_played)

\* C17: no run_id is held by two runs: not by an Active and an Archived run
\* at once, and not by the Active Runs of two players.
C17_RunIdUnique ==
    /\ \A uid \in DOMAIN runs : ~Has(completed, runs[uid].run_id)
    /\ \A u1 \in DOMAIN runs : \A u2 \in DOMAIN runs :
          runs[u1].run_id = runs[u2].run_id => u1 = u2

\* A run came back from the archive while another run is archived.
C17_Reactivated ==
    /\ \E uid \in DOMAIN runs : runs[uid].ended_at # Absent
    /\ DOMAIN completed # {}

PendingKinds(p) ==
    {k \in {"DeckRegistration", "Reactivation", "ManualReportTarget"} :
        \/ k = "DeckRegistration" /\ Has(pending_deck_links, p)
        \/ k = "Reactivation" /\ Has(pending_reactivations, p)
        \/ k = "ManualReportTarget" /\ Has(pending_manual_reports, p)}

\* C18: each player has at most one outstanding pending request among deck
\* registration, reactivation and manual report target.
C18_OnePendingRequest ==
    \A p \in Players : Cardinality(PendingKinds(p)) <= 1

\* C19: a run leaves the archive for the Active set, by admin command or by
\* approved request, only when its owner has no Active Run; the step takes
\* exactly this run out of the archive and makes it an Active Run.
C19_ReactivateGuarded ==
    [][\A r \in DOMAIN completed :
          /\ ~Has(completed', r)
          /\ \E u \in DOMAIN runs' : runs'[u].run_id = r
          => /\ ~Has(runs, completed[r].user_id)
             /\ \E u \in DOMAIN runs' : runs'[u] = completed[r]
             /\ completed' = Del(completed, r)]_vars

\* C20: ended_at is set only on Archived runs: no Active Run, a reactivated
\* one included, carries an ended_at, and every Archived run carries one.
C20_EndedAtOnlyArchived ==
    /\ \A uid \in DOMAIN runs : runs[uid].ended_at = Absent
    /\ \A r \in DOMAIN completed : completed[r].ended_at # Absent

\* C21: after the admin cancelled the run of a player who had an Active
\* Run, that run is neither Active nor Archived, the player is not in the
\* queue and the Archived runs are what they were.
C21_CancelRemovesRun ==
    [][\A p \in Players :
          RunCancelled(p) \in out' =>
             /\ Has(runs, p)
             /\ ~Has(runs', p)
             /\ \A u \in DOMAIN runs' : runs'[u].run_id # runs[p].run_id
             /\ ~Has(completed', runs[p].run_id)
             /\ ~InQueue(player_queue', p)
             /\ completed' = completed]_vars

\* A cancel has just happened while another run is in the archive.
C21_Cancelled ==
    \E p \in Players :
        /\ RunCancelled(p) \in out
        /\ DOMAIN completed # {}
        /\ ~Has(runs, p)

\* C22: the admin's cancel leaves the player's run-start history as it was
\* unless the admin chose to clear it.  cancel_run takes the player and
\* nothing else, so no cancel carries that choice.
C22_CancelKeepsHistory ==
    [][\A p \in Players : RunCancelled(p) \in out' => history' = history]_vars

GainsForced(rs, rs2, p) ==
    /\ Has(rs, p) /\ Has(rs2, p)
    /\ Len(rs2[p].match_results) > Len(rs[p].match_results)
    /\ rs2[p].match_results[Len(rs2[p].match_results)].type = "admin_forced"

\* C23: a force_result for two different players who both have an Active
\* Run appends a Win to the winner's run and a Loss to the loser's, both of
\* type admin_forced, with no confirm/dispute session; no run gets an
\* admin_forced entry in any other way, so a force_result for a player
\* without a run or for one player twice changes no run.
C23_ForceResultRecords ==
    [][/\ \A w \in Players : \A l \in Players :
             ForceLogged(w, l) \in out' =>
                /\ w # l /\ Has(runs, w) /\ Has(runs, l)
                /\ runs' = RecordPair(runs, w, l, "admin_forced")
                /\ result_views' = result_views
                /\ dispute_views' = dispute_views
                /\ match_views' = match_views
       /\ \A p \in Players :
             GainsForced(runs, runs', p) =>
                \E w \in DOMAIN runs : \E l \in DOMAIN runs :
                   /\ w # l
                   /\ runs' = RecordPair(runs, w, l, "admin_forced")]_vars

\* A forced result has just been logged.
C23_Forced ==
    \E w \in Players : \E l \in Players :
        /\ ForceLogged(w, l) \in out
        /\ Has(runs, w) /\ Has(runs, l)
        /\ Wins(runs[w]) >= 1 /\ Losses(runs[l]) >= 1
        /\ result_views = << >>

\* C24: FINISH by a player with an Active Run moves that run, with the
\* results it has, to the archive and takes the player out of the queue;
\* FINISH by a player without an Active Run is refused and changes nothing.
C24_FinishEarly ==
    [][\A p \in Players :
          /\ RunFinished(p) \in out' =>
                /\ Has(runs, p)
                /\ ~Has(runs', p)
                /\ Has(completed', runs[p].run_id)
                /\ completed'[runs[p].run_id].match_results =
                      runs[p].match_results
                /\ completed'[runs[p].run_id].ended_at # Absent
                /\ ~InQueue(player_queue', p)
          /\ FinishRefused(p) \in out' =>
                /\ ~Has(runs, p)
                /\ runs' = runs
                /\ completed' = completed
                /\ player_queue' = player_queue
                /\ history' = history]_vars

\* A run was finished early, with one or two results.
C24_FinishedEarly ==
    \E p \in Players : \E r \in DOMAIN completed :
        /\ RunFinished(p) \in out
        /\ completed[r].user_id = p
        /\ Len(completed[r].match_results) \in 1..(MATCH_LIMIT - 1)

HistoryLen(h, p) == IF Has(h, p) THEN Len(h[p]) ELSE 0

\* C25: a new run (one with a newly generated run_id) is created only for a
\* player whose own deck-registration request is pending and at most 600 s
\* old; it starts with no results and no opponents, exactly one run-start
\* timestamp, the current instant, is appended to that player's history and
\* the pending request is cleared.  In every other step no run is created
\* and no history grows.
C25_RegistrationConsumesRequest ==
    [][/\ next_uuid' # next_uuid =>
             \E p \in Players :
                /\ Has(pending_deck_links, p)
                /\ now - pending_deck_links[p] <= PENDING_EXPIRY
                /\ ~Has(pending_deck_links', p)
                /\ Has(runs', p)
                /\ runs'[p].run_id = next_uuid
                /\ runs'[p].match_results = << >>
                /\ runs'[p].opponents_played = << >>
                /\ \A q \in Players \ {p} :
                      /\ Has(runs', q) = Has(runs, q)
                      /\ Has(runs, q) => runs'[q] = runs[q]
                /\ history' = Put(history, p,
                                  Append(IF Has(history, p) THEN history[p]
                                         ELSE << >>, now))
       /\ \A p \in Players :
             /\ HistoryLen(history', p) > HistoryLen(history, p)
                   => next_uuid' # next_uuid
             /\ (Has(runs', p) /\ runs'[p].run_id >= next_uuid)
                   => next_uuid' # next_uuid]_vars

\* A run has been registered after the clock had moved on.
C25_Registered ==
    \E p \in Players :
        /\ Has(runs, p)
        /\ runs[p].run_id = next_uuid - 1
        /\ runs[p].match_results = << >>
        /\ HistoryLen(history, p) >= 1
        /\ history[p][Len(history[p])] > Now0
        /\ ~Has(pending_deck_links, p)

\* C26: a local report creates a session only when the named opponent is
\* not the reporter, has an Active Run and is not in the reporter's
\* opponents_played; the session then has the reporter as claimed winner
\* and type local.  A refused report creates no session, and neither kind
\* of step changes a run.
C26_LocalReportValidated ==
    [][/\ \A v \in 1..Len(result_views') :
             (v > Len(result_views) /\ result_views'[v].match_type = "local")
             => LET w == result_views'[v].winner_id
                    l == result_views'[v].loser_id
                IN
                /\ Has(pending_manual_reports, w)
                /\ ~Has(pending_manual_reports', w)
                /\ w # l
                /\ Has(runs, l)
                /\ Has(runs, w)
                /\ ~SeqHas(runs[w].opponents_played, l)
                /\ runs' = runs /\ completed' = completed
       /\ \A p \in Players :
             ReportRejected(p) \in out' =>
                /\ result_views' = result_views
                /\ runs' = runs /\ completed' = completed]_vars

\* A local report was sent by a player who already has a recorded result.
C26_Reported ==
    \E v \in 1..Len(result_views) :
        /\ result_views[v].match_type = "local"
        /\ ~result_views[v].confirmed
        /\ Has(runs, result_views[v].winner_id)
        /\ Len(runs[result_views[v].winner_id].match_results) >= 1

\* C27: a notification that cannot be delivered does not block the state
\* change of its operation: a handler whose result brought both players to
\* MATCH_LIMIT does not end after the winner's archival with the loser's
\* run still to archive, and a dispute by the reported loser always reaches
\* the admins.
C27_DeliveryFailureDoesNotBlock ==
    [][/\ \A s \in DOMAIN tasks :
             (/\ tasks[s].kind = "tail"
              /\ tasks[s].pc = "archive_w"
              /\ tasks[s].wlen >= MATCH_LIMIT
              /\ tasks[s].llen >= MATCH_LIMIT
              /\ tasks'[s].kind = "idle")
             => Has(completed', tasks[s].lrun)
       /\ \A v \in 1..Len(result_views) :
             (/\ ~result_views[v].stopped
              /\ ~result_views[v].confirmed
              /\ result_views'[v].stopped
              /\ result_views'[v].confirmed
              /\ result_views'[v].recorded = result_views[v].recorded
              /\ tasks' = tasks)
             => Len(dispute_views') = Len(dispute_views) + 1]_vars

Stored(rs, cs, r) ==
    (IF Has(cs, r) THEN {cs[r]} ELSE {})
        \cup {rs[u] : u \in {x \in DOMAIN rs : rs[x].run_id = r}}

IsPrefix(a, b) == Len(a) <= Len(b) /\ SubSeq(b, 1, Len(a)) = a

\* C28: no step writes an older picture of the stores over a newer one.  A
\* run that is stored before and after a step keeps every result and
\* opponent saved so far, in order; and a run that was in neither store
\* (never created, cancelled or deleted) appears only as a newly registered
\* run with a new run_id.
C28_NoLostUpdate ==
    [][\A r \in 1..MaxRunIds :
          /\ \A a \in Stored(runs, completed, r) :
                \A b \in Stored(runs', completed', r) :
                   /\ IsPrefix(a.match_results, b.match_results)
                   /\ IsPrefix(a.opponents_played, b.opponents_played)
                   /\ b.leader = a.leader /\ b.base = a.base
          /\ (Stored(runs, completed, r) = {}
                 /\ Stored(runs', completed', r) # {})
             => r = next_uuid /\ next_uuid' = next_uuid + 1]_vars

\* A run with results is in the archive while a completion loop of another
\* result is suspended.
C28_ArchivedWhileSuspended ==
    /\ \E r \in DOMAIN completed : Len(completed[r].match_results) >= 1
    /\ \E s \in DOMAIN tasks : tasks[s].kind = "tail"

Paired(a, b) == [ev |-> "pair", a |-> a, b |-> b]

\* C29: the step that selects a pair takes both players out of the queue:
\* both were queued, neither is afterwards, nobody else left the queue, and
\* so no other pairing attempt can select either of them.
C29_PairRemovedTogether ==
    [][\A a \in Players : \A b \in Players :
          Paired(a, b) \in out' =>
             /\ a # b
             /\ InQueue(player_queue, a) /\ InQueue(player_queue, b)
             /\ ~InQueue(player_queue', a) /\ ~InQueue(player_queue', b)
             /\ Len(player_queue') = Len(player_queue) - 2]_vars

\* A pair has just been selected while another pairing attempt is
\* suspended.
C29_PairedConcurrently ==
    /\ \E a \in Players : \E b \in Players : Paired(a, b) \in out
    /\ \E s \in DOMAIN tasks : tasks[s].kind = "join_queue"

CleanupStep ==
    \E s \in DOMAIN tasks :
        \/ tasks[s].kind = "cleanup" /\ tasks'[s] # tasks[s]
        \/ tasks[s].kind = "idle" /\ tasks'[s].kind = "cleanup"

\* C30: the idle sweep removes the queue entries that have waited more than
\* 60 minutes and no others: every entry a step of the sweep takes out of
\* the queue has waited more than 60 minutes.
C30_SweepRemovesOnlyIdle ==
    [][CleanupStep =>
          \A i \in 1..Len(player_queue) :
             (\A j \in 1..Len(player_queue') :
                 player_queue'[j] # player_queue[i])
             => now - player_queue[i].join_time > IdleLimit]_vars


\* A flow of player uid in dict d that is older than its expiry.
PastExpiry(d, uid, limit) == Has(d, uid) /\ Expired(d[uid], limit)

\* C31: every pending request of any kind (deck registration, reactivation,
\* manual report target) that is past its expiry is eventually cleared,
\* also when the player never writes again (the periodic sweep clears it).
C31_PendingEventuallyCleared ==
    \A uid \in Players :
        /\ PastExpiry(pending_deck_links, uid, PENDING_EXPIRY)
              ~> ~PastExpiry(pending_deck_links, uid, PENDING_EXPIRY)
        /\ PastExpiry(pending_reactivations, uid, PENDING_EXPIRY)
              ~> ~PastExpiry(pending_reactivations, uid, PENDING_EXPIRY)
        /\ PastExpiry(pending_manual_reports, uid, MANUAL_EXPIRY)
              ~> ~PastExpiry(pending_manual_reports, uid, MANUAL_EXPIRY)

\* The sources a stored result can carry (283, 397, 916, 597).
ResultTypes == {"queue", "local", "admin_dispute", "admin_forced"}

\* The step changes what is recorded in a run that stays Active.
RunGrew ==
    \E u \in Players :
        /\ Has(runs, u) /\ Has(runs', u)
        /\ runs'[u].run_id = runs[u].run_id
        /\ \/ runs'[u].match_results # runs[u].match_results
           \/ runs'[u].opponents_played # runs[u].opponents_played

\* The step appends one Win against l to w's run and one Loss against w to
\* l's run, with the same source, adds each to the other's
\* opponents_played, and changes nothing else in the Active set.
SymmetricAppend(w, l, ty) ==
    /\ w # l
    /\ Has(runs, w) /\ Has(runs, l)
    /\ DOMAIN runs' = DOMAIN runs
    /\ runs'[w] = [runs[w] EXCEPT
                      !.opponents_played = Append(@, l),
                      !.match_results =
                          Append(@, [opp |-> l, res |-> "W", type |-> ty])]
    /\ runs'[l] = [runs[l] EXCEPT
                      !.opponents_played = Append(@, w),
                      !.match_results =
                          Append(@, [opp |-> w, res |-> "L", type |-> ty])]
    /\ \A u \in DOMAIN runs \ {w, l} : runs'[u] = runs[u]

\* The run of player p, Active or Archived, where every player has the one
\* run the specification starts with (run_id = p).
RunOf(p) == IF Has(runs, p) THEN runs[p] ELSE completed[p]

Entries(p, e) ==
    Cardinality({i \in DOMAIN RunOf(p).match_results :
                    RunOf(p).match_results[i] = e})

\* C32: every result-recording operation is symmetric and all-or-nothing:
\* a step that changes what an Active Run records appends exactly one Win
\* (opponent = loser) to the winner's run and one Loss (opponent = winner)
\* to the loser's run with the same source, and each player to the other's
\* opponents_played; and in every state each recorded Win has its Loss.
C32_RecordingSymmetric ==
    /\ [][RunGrew => \E w \in Players, l \in Players, ty \in ResultTypes :
                        SymmetricAppend(w, l, ty)]_vars
    /\ [](\A a \in Players, b \in Players, ty \in ResultTypes :
             Entries(a, [opp |-> b, res |-> "W", type |-> ty])
                = Entries(b, [opp |-> a, res |-> "L", type |-> ty]))

\* Witness for C32: a run holds results of all three recording operations.
C32_AllThreeRecorded ==
    \E p \in Players :
        \A ty \in {"queue", "admin_dispute", "admin_forced"} :
            \E i \in DOMAIN RunOf(p).match_results :
                RunOf(p).match_results[i].type = ty

\* Run r is in the Active or in the Archived set of the stores (rs, cs).
Kept(rs, cs, r) ==
    \/ \E u \in DOMAIN rs : rs[u].run_id = r
    \/ Has(cs, r)

\* C33: an Active Run is never overwritten: when a step puts another run
\* under a player who had an Active Run (deck registration, admin or
\* approved reactivation), the run that was there is still in the Active or
\* in the Archived set afterwards.
C33_ActiveRunNotOverwritten ==
    [][\A u \in DOMAIN runs :
          (Has(runs', u) /\ runs'[u].run_id # runs[u].run_id)
             => Kept(runs', completed', runs[u].run_id)]_vars

\* C34: a run that leaves the archive becomes the Active Run of the player
\* it was archived for (its stored user_id): no player obtains as Active
\* Run a run that was archived for somebody else.
C34_ReactivatedForOwner ==
    [][\A u \in Players, r \in DOMAIN completed :
          (Has(runs', u) /\ runs'[u].run_id = r /\ ~Has(completed', r))
             => completed[r].user_id = u]_vars

\* C35: for the one pairing produced by matchmaking, at most one result is
\* ever recorded between the two players, whoever claims the win and
\* however often.
C35_OneResultPerPairing ==
    \A p \in Players : Len(RunOf(p).match_results) <= 1

\* Players a and b have been paired (a MatchReportView for them exists).
WerePaired(a, b) == << a, b >> \in match_views \/ << b, a >> \in match_views

\* A result of the match between a and b is recorded in a's Active Run.
ResultRecorded(a, b) == Has(runs, a) /\ SeqHas(runs[a].opponents_played, b)

\* C36: two players who have been paired and whose match has no recorded
\* result yet are not paired with each other again when both re-enter the
\* queue.
C36_NoPairingWhileUnresolved ==
    [][\A e \in out' :
          (e.ev = "pair" /\ WerePaired(e.a, e.b)) => ResultRecorded(e.a, e.b)]_vars

\* Player y is in opponents_played of player x's Active Run.
HasPlayed(x, y) == Has(runs, x) /\ SeqHas(runs[x].opponents_played, y)

\* C37: matchmaking never pairs two players when either one has the other
\* in opponents_played of their current Active Run, also when one of them
\* has started a new run since they last played each other.
C37_NoRematchEitherSide ==
    [][\A e \in out' :
          e.ev = "pair" => ~HasPlayed(e.a, e.b) /\ ~HasPlayed(e.b, e.a)]_vars

\* The run starts of player uid that fall between the reset of day d and
\* the next reset.
StartsOfDay(h, uid, d) ==
    IF Has(h, uid)
    THEN Cardinality({i \in 1..Len(h[uid]) :
                        /\ h[uid][i] > ResetOfDay(d)
                        /\ h[uid][i] <= ResetOfDay(d + 1)})
    ELSE 0

\* C38: without an admin cancel, the number of runs a player starts after
\* any one reset anchor (and before the next) never exceeds
\* MAX_RUNS_PER_DAY, under every interleaving of start clicks, deck
\* submissions, finishes and reactivations.
C38_DailyLimitHolds ==
    \A uid \in Players, d \in -1..3 :
        StartsOfDay(history, uid, d) <= MAX_RUNS_PER_DAY

\* The last step emitted the trophy event of run r.
TrophyFor(r) == \E e \in out : e.ev = "trophy" /\ e.run_id = r

\* C39: a trophy event is emitted at most once per run_id, across archival,
\* reactivation and re-archival of the same run: once the trophy event of a
\* run has been emitted and is over, it is never emitted again.
C39_TrophyOncePerRun ==
    \A r \in 1..MaxRunIds :
        [](TrophyFor(r) => [](~TrophyFor(r) => []~TrophyFor(r)))

\* Player u is named as an opponent in run record rd.
NamesOpponent(rd, u) ==
    \/ SeqHas(rd.opponents_played, u)
    \/ \E i \in 1..Len(rd.match_results) : rd.match_results[i].opp = u

\* C40: in every reachable state no Active or Archived run names its own
\* holder as an opponent: the player a run is stored under (Active) or was
\* archived for (Archived) is neither in its opponents_played nor in its
\* match_results.
C40_NoSelfOpponent ==
    /\ \A u \in DOMAIN runs : ~NamesOpponent(runs[u], u)
    /\ \A r \in DOMAIN completed :
          ~NamesOpponent(completed[r], completed[r].user_id)
=============================================================================
